---- MODULE Spec2Model ----
(***************************************************************************)
(* Model of the task classification and bucket-assignment pipeline of      *)
(* src/lib/actions/bucket.ts (server actions over the tables "bucket" and  *)
(* "task").                                                                *)
(*                                                                         *)
(* Strings are sequences of one-character strings, so that trim,           *)
(* toLowerCase, whitespace stripping, regular-expression search, date      *)
(* parsing and date formatting are computed as the code computes them.     *)
(* Timestamps are minutes since 1970-01-01T00:00Z; NullDate is SQL NULL.   *)
(* Row ids (randomUUID) are fresh naturals drawn from one counter.         *)
(***************************************************************************)
EXTENDS Integers, Sequences, FiniteSets, TLC

(***************************************************************************)
(* Bounds of the model.                                                    *)
(***************************************************************************)
\* total number of rows (buckets and tasks) ever inserted
MaxIds == 3

(***************************************************************************)
(* String literals used as inputs.                                         *)
(***************************************************************************)
\* the value undefined / null of an optional string
Undefined == <<"undefined">>
sEmpty == <<>>
sBlank == <<" "," ">>
sEvents == <<"E","v","e","n","t","s">>
sEventsLower == <<"e","v","e","n","t","s">>
sEventsSpaced == <<"E"," ","v","e","n","t","s">>
sEventsUpper == <<"E","V","E","N","T","S">>
sAPUSH == <<"A","P","U","S","H">>
sCompSciPadded == <<" ","C","o","m","p"," ","S","c","i"," ">>
sCompSci == <<"C","o","m","p"," ","S","c","i">>
sComputerScience == <<"C","o","m","p","u","t","e","r"," ","S","c","i","e","n","c","e">>
sComputerScienceJoined == <<"c","o","m","p","u","t","e","r","s","c","i","e","n","c","e">>
sOthers == <<"O","t","h","e","r","s">>
sTask == <<"T","a","s","k">>
tApush == <<"A","P","U","S","H"," ","r","e","a","d","i","n","g"," ","c","h","a","p","t","e","r"," ","5"," ","d","u","e"," ","M","o","n","d","a","y">>
tQuizPadded == <<" ","h","w"," ","q","u","i","z"," ">>
tQuiz == <<"h","w"," ","q","u","i","z">>
sChapter5 == <<"C","h","a","p","t","e","r"," ","5"," ","R","e","a","d","i","n","g">>
sLabReport == <<"L","a","b"," ","r","e","p","o","r","t">>
d20241118 == <<"2","0","2","4","-","1","1","-","1","8">>
d20241201 == <<"2","0","2","4","-","1","2","-","0","1">>
dSoon == <<"s","o","o","n">>
t1400 == <<"1","4",":","0","0">>
t0000 == <<"0","0",":","0","0">>
d20240229 == <<"2","0","2","4","-","0","2","-","2","9">>
d20240230 == <<"2","0","2","4","-","0","2","-","3","0">>
d20231231 == <<"2","0","2","3","-","1","2","-","3","1">>
d20241301 == <<"2","0","2","4","-","1","3","-","0","1">>
t2359 == <<"2","3",":","5","9">>
t0830 == <<"0","8",":","3","0">>
t140030 == <<"1","4",":","0","0",":","3","0">>
t900 == <<"9",":","0","0">>
t2500 == <<"2","5",":","0","0">>
t2400 == <<"2","4",":","0","0">>
cQuizTomorrow == <<"q","u","i","z"," ","t","o","m","o","r","r","o","w">>
cHomeworkAndQuiz == <<"H","o","m","e","w","o","r","k"," ","a","n","d"," ","Q","u","i","z">>
cLabelMaker == <<"l","a","b","e","l"," ","m","a","k","e","r">>
cChemistryLab == <<"c","h","e","m","i","s","t","r","y"," ","l","a","b">>
cFinalExam == <<"f","i","n","a","l"," ","e","x","a","m">>
cBuyMilk == <<"b","u","y"," ","m","i","l","k">>
cNotebook == <<"n","o","t","e","b","o","o","k">>
cShowhw == <<"s","h","o","w","h","w">>
cGamePresentation == <<"g","a","m","e"," ","d","a","y"," ","p","r","e","s","e","n","t","a","t","i","o","n">>
cAssignment == <<"A","s","s","i","g","n","m","e","n","t"," ","3">>

(***************************************************************************)
(* JavaScript string primitives.                                           *)
(***************************************************************************)
UpperLetters == <<"A","B","C","D","E","F","G","H","I","J","K","L","M","N","O","P","Q","R","S","T","U","V","W","X","Y","Z">>
LowerLetters == <<"a","b","c","d","e","f","g","h","i","j","k","l","m","n","o","p","q","r","s","t","u","v","w","x","y","z">>
DigitChars == <<"0","1","2","3","4","5","6","7","8","9">>

Range(s) == {s[i] : i \in DOMAIN s}

\* the lower-case letter of each upper-case letter
LowerOf == [c \in Range(UpperLetters) |-> LowerLetters[CHOOSE i \in DOMAIN UpperLetters : UpperLetters[i] = c]]

\* String.prototype.toLowerCase on one character
LowerChar(c) == IF c \in DOMAIN LowerOf THEN LowerOf[c] ELSE c

\* String.prototype.toLowerCase
ToLowerCase(s) == <<>> \o [i \in DOMAIN s |-> LowerChar(s[i])]

\* the regular-expression class \s (and the characters trim() removes)
SpaceChars == {" ", "\t", "\n", "\r", "\f"}

IsSpace(c) == c \in SpaceChars

\* the regular-expression class \w
WordChars == Range(UpperLetters) \cup Range(LowerLetters) \cup Range(DigitChars) \cup {"_"}

IsWordChar(c) == c \in WordChars

\* s.replace(/\s+/g, '')
StripWhitespace(s) == SelectSeq(s, LAMBDA c : ~IsSpace(c))

\* String.prototype.trim
Trim(s) ==
  IF \A i \in DOMAIN s : IsSpace(s[i]) THEN <<>>
  ELSE LET first == CHOOSE i \in DOMAIN s : ~IsSpace(s[i]) /\ \A j \in 1..(i-1) : IsSpace(s[j])
           lastIx == CHOOSE i \in DOMAIN s : ~IsSpace(s[i]) /\ \A j \in (i+1)..Len(s) : IsSpace(s[j])
       IN SubSeq(s, first, lastIx)

\* JavaScript truthiness of an optional string: undefined, null and '' are falsy
Truthy(s) == s # Undefined /\ s # <<>>

\* a fallback that keeps the empty string
OrElse_KeepsEmpty(a, b) == IF a = Undefined THEN b ELSE a

\* a || b on optional strings
OrElse(a, b) == IF Truthy(a) THEN a ELSE b

\* a ?? b on optional strings
Coalesce(a, b) == IF a = Undefined THEN b ELSE a

\* pat occurs in s starting at position i
MatchAt(s, pat, i) ==
  i >= 1 /\ i + Len(pat) - 1 <= Len(s) /\ \A k \in DOMAIN pat : s[i + k - 1] = pat[k]

\* /pat/.test(s) for a literal pattern
Contains(s, pat) == \E i \in 1..Len(s) : MatchAt(s, pat, i)

\* the assertion \b between positions i and i+1 of s (0 <= i <= Len(s))
WordBoundary(s, i) ==
  LET before == i >= 1 /\ IsWordChar(s[i])
      after == i + 1 <= Len(s) /\ IsWordChar(s[i + 1])
  IN before # after

\* /pat\b/.test(s)
ContainsThenBoundary(s, pat) ==
  \E i \in 1..Len(s) : MatchAt(s, pat, i) /\ WordBoundary(s, i + Len(pat) - 1)

\* /\bpat\b/.test(s)
ContainsWord(s, pat) ==
  \E i \in 1..Len(s) : MatchAt(s, pat, i) /\ WordBoundary(s, i - 1) /\ WordBoundary(s, i + Len(pat) - 1)

(***************************************************************************)
(* Task types and the lexical categorizer.                                 *)
(***************************************************************************)
\* an absent (or empty) typeTag
NoTag == ""

VALID_TASK_TYPES == <<"Homework", "Quiz", "Lab", "Test", "Project", "Event", "Reminder", "Other">>

\* the ordered keyword groups of categorizeTaskType; each pattern is
\* <<kind, literal>> with kind "plain" (/lit/), "end" (/lit\b/) or "word" (/\blit\b/)
TypePatterns == <<
  [type |-> "Homework", patterns |-> << <<"plain", <<"h","o","m","e","w","o","r","k">> >>,
                                         <<"word", <<"h","w">> >>,
                                         <<"plain", <<"a","s","s","i","g","n","m","e","n","t">> >> >>],
  [type |-> "Quiz", patterns |-> << <<"plain", <<"q","u","i","z">> >> >>],
  [type |-> "Lab", patterns |-> << <<"end", <<"l","a","b">> >>,
                                    <<"plain", <<"l","a","b","o","r","a","t","o","r","y">> >> >>],
  [type |-> "Test", patterns |-> << <<"plain", <<"t","e","s","t">> >>,
                                     <<"plain", <<"m","i","d","t","e","r","m">> >>,
                                     <<"plain", <<"f","i","n","a","l"," ","e","x","a","m">> >>,
                                     <<"plain", <<"e","x","a","m">> >> >>],
  [type |-> "Project", patterns |-> << <<"plain", <<"p","r","o","j","e","c","t">> >>,
                                        <<"plain", <<"p","r","e","s","e","n","t","a","t","i","o","n">> >> >>],
  [type |-> "Event", patterns |-> << <<"plain", <<"e","v","e","n","t">> >>,
                                      <<"plain", <<"m","e","e","t","i","n","g">> >>,
                                      <<"plain", <<"r","e","h","e","a","r","s","a","l">> >>,
                                      <<"plain", <<"g","a","m","e">> >>,
                                      <<"plain", <<"p","r","a","c","t","i","c","e">> >> >>],
  [type |-> "Reminder", patterns |-> << <<"plain", <<"r","e","m","i","n","d","e","r">> >>,
                                         <<"plain", <<"n","o","t","e">> >>,
                                         <<"plain", <<"r","e","m","e","m","b","e","r">> >> >>] >>

\* regex.test(source) for one pattern of TypePatterns
PatternTest(p, source) ==
  CASE p[1] = "plain" -> Contains(source, p[2])
    [] p[1] = "end" -> ContainsThenBoundary(source, p[2])
    [] p[1] = "word" -> ContainsWord(source, p[2])

\* entry.patterns.some((regex) => regex.test(source))
EntryMatches(entry, source) == \E k \in DOMAIN entry.patterns : PatternTest(entry.patterns[k], source)

RECURSIVE FindEntry(_, _)
\* [...].find((entry) => entry.patterns.some(...)) from the k-th entry on:
\* the type of the first matching entry, "Other" when there is none
FindEntry(source, k) ==
  IF k > Len(TypePatterns) THEN "Other"
  ELSE IF EntryMatches(TypePatterns[k], source) THEN TypePatterns[k].type
  ELSE FindEntry(source, k + 1)

\* a categorizer in which the last matching group wins
Categorize_LastGroup(task, description, assignmentName) ==
  LET source == ToLowerCase(task \o <<" ">> \o Coalesce(description, <<>>) \o <<" ">> \o Coalesce(assignmentName, <<>>))
      matching == {k \in DOMAIN TypePatterns : EntryMatches(TypePatterns[k], source)}
  IN IF matching = {} THEN "Other"
     ELSE TypePatterns[CHOOSE k \in matching : \A j \in matching : j <= k].type

\* categorizeTaskType(task, {assignmentName, description}), computed
Categorize(task, description, assignmentName) ==
  FindEntry(ToLowerCase(task \o <<" ">> \o Coalesce(description, <<>>) \o <<" ">> \o Coalesce(assignmentName, <<>>)), 1)

\* the raw texts, descriptions and assignment names that tasks of the model carry
KnownRaws == {tQuiz, tApush}
KnownDescriptions == {Undefined, tQuiz, tApush, sLabReport}
KnownAssignmentNames == {Undefined, sTask, sChapter5, sComputerScience, sLabReport}

\* Categorize tabulated once over those strings
CategorizeTable ==
  [x \in KnownRaws \X KnownDescriptions \X KnownAssignmentNames |-> Categorize(x[1], x[2], x[3])] @@ <<>>

\* categorizeTaskType(task, {assignmentName, description})
categorizeTaskType(task, description, assignmentName) ==
  IF <<task, description, assignmentName>> \in DOMAIN CategorizeTable
  THEN CategorizeTable[<<task, description, assignmentName>>]
  ELSE Categorize(task, description, assignmentName)

(***************************************************************************)
(* Dates: new Date(iso), Date.prototype.toISOString, getUTCHours/Minutes.  *)
(***************************************************************************)
\* SQL NULL / undefined for a timestamp
NullDate == -1

IsDigit(c) == c \in Range(DigitChars)

DigitVal(c) == (CHOOSE i \in DOMAIN DigitChars : DigitChars[i] = c) - 1

RECURSIVE ParseNat(_)
\* the number written by a non-empty string of decimal digits, -1 otherwise
ParseNat(s) ==
  IF s = <<>> \/ \E i \in DOMAIN s : ~IsDigit(s[i]) THEN -1
  ELSE IF Len(s) = 1 THEN DigitVal(s[1])
  ELSE 10 * ParseNat(SubSeq(s, 1, Len(s) - 1)) + DigitVal(s[Len(s)])

\* days from 1970-01-01 to the first day of month m of year y, plus d - 1
\* (MakeDay: a day beyond the month's length rolls over into the next month)
DaysFromCivil(y, m, d) ==
  LET yy == IF m <= 2 THEN y - 1 ELSE y
      era == yy \div 400
      yoe == yy - era * 400
      mp == IF m > 2 THEN m - 3 ELSE m + 9
      doy == (153 * mp + 2) \div 5 + d - 1
      doe == yoe * 365 + yoe \div 4 - yoe \div 100 + doy
  IN era * 146097 + doe - 719468

\* the civil date <<y, m, d>> of a day number
CivilFromDays(z) ==
  LET zz == z + 719468
      era == zz \div 146097
      doe == zz - era * 146097
      yoe == (doe - doe \div 1460 + doe \div 36524 - doe \div 146096) \div 365
      doy == doe - (365 * yoe + yoe \div 4 - yoe \div 100)
      mp == (5 * doy + 2) \div 153
      d == doy - (153 * mp + 2) \div 5 + 1
      m == IF mp < 10 THEN mp + 3 ELSE mp - 9
      y == yoe + era * 400
  IN << (IF m <= 2 THEN y + 1 ELSE y), m, d >>

\* new Date(iso).getTime() in minutes for a date-time string without zone
\* designator, which ECMAScript reads as local time (tz = minutes the server's
\* zone is ahead of UTC); NullDate stands for NaN.  Accepted are the forms
\* YYYY-MM-DDTHH:MM and YYYY-MM-DDTHH:MM:SS.
ParseLocalDateTime(iso, tz) ==
  IF ~(Len(iso) \in {16, 19}) THEN NullDate
  ELSE
    LET y == ParseNat(SubSeq(iso, 1, 4))
        m == ParseNat(SubSeq(iso, 6, 7))
        d == ParseNat(SubSeq(iso, 9, 10))
        hh == ParseNat(SubSeq(iso, 12, 13))
        mi == ParseNat(SubSeq(iso, 15, 16))
        ss == IF Len(iso) = 19 THEN ParseNat(SubSeq(iso, 18, 19)) ELSE 0
        seps == /\ iso[5] = "-" /\ iso[8] = "-" /\ iso[11] = "T" /\ iso[14] = ":"
                /\ (Len(iso) = 19 => iso[17] = ":")
        inRange == /\ y >= 0
                   /\ m \in 1..12
                   /\ d \in 1..31
                   /\ mi \in 0..59
                   /\ ss \in 0..59
                   /\ (hh \in 0..23 \/ (hh = 24 /\ mi = 0 /\ ss = 0))
    IN IF seps /\ inRange
       THEN DaysFromCivil(y, m, d) * 1440 + hh * 60 + mi - tz
       ELSE NullDate

\* n written with w decimal digits (zero padded)
RECURSIVE Pad(_, _)
Pad(n, w) == IF w = 0 THEN <<>> ELSE Append(Pad(n \div 10, w - 1), DigitChars[(n % 10) + 1])

\* date.getUTCHours()
GetUTCHours(t) == (t % 1440) \div 60

\* date.getUTCMinutes()
GetUTCMinutes(t) == t % 60

\* date.toISOString().slice(0, 10)
IsoDate(t) ==
  LET c == CivilFromDays(t \div 1440)
  IN Pad(c[1], 4) \o <<"-">> \o Pad(c[2], 2) \o <<"-">> \o Pad(c[3], 2)

\* date.toISOString().slice(11, 16)
IsoTime(t) == Pad(GetUTCHours(t), 2) \o <<":">> \o Pad(GetUTCMinutes(t), 2)

\* a composer that does not default the time to "00:00"
composeDueDate_NoDefaultTime(dueDate, dueTime, tz) ==
  IF ~Truthy(dueDate) THEN NullDate
  ELSE LET isoTime == IF Len(dueTime) = 5 THEN dueTime \o <<":","0","0">> ELSE dueTime
       IN ParseLocalDateTime(dueDate \o <<"T">> \o isoTime, tz)

\* composeDueDate(dueDate, dueTime) on a server whose zone is tz minutes ahead of UTC
composeDueDate(dueDate, dueTime, tz) ==
  IF ~Truthy(dueDate) THEN NullDate
  ELSE LET time == OrElse(dueTime, <<"0","0",":","0","0">>)
           isoTime == IF Len(time) = 5 THEN time \o <<":","0","0">> ELSE time
           iso == dueDate \o <<"T">> \o isoTime
       IN ParseLocalDateTime(iso, tz)

\* the dueDate / dueTime split of formatTaskRecord, getTaskById and loadCalendarTasks
SplitDate(t) == IF t = NullDate THEN Undefined ELSE IsoDate(t)

SplitTime(t) ==
  IF t # NullDate /\ (GetUTCHours(t) # 0 \/ GetUTCMinutes(t) # 0) THEN IsoTime(t) ELSE Undefined

(***************************************************************************)
(* Storage: the tables "bucket" and "task".                                *)
(*                                                                         *)
(* A database value d is [buckets, tasks, nextId, writes]: the bucket rows *)
(* and the task rows in creation order (ORDER BY created_at), the next     *)
(* fresh row id, and the write statements issued so far by the running     *)
(* handler.                                                                *)
(***************************************************************************)
\* the registered users (rows of the table "user"), and the empty user id
Users == {"u1", "u2"}
NoUser == ""

\* an absent or empty id argument
NoId == 0

\* the bucket row with the given id, as a set (empty when there is none)
BucketRows(d, id) == {d.buckets[i] : i \in {j \in DOMAIN d.buckets : d.buckets[j].id = id}}

TaskRows(d, id) == {d.tasks[i] : i \in {j \in DOMAIN d.tasks : d.tasks[j].id = id}}

\* a database without the constraint task_bucket_id_bucket_id_fk
ForeignKeyHolds_NotEnforced(d, bucketId) == TRUE

\* task_bucket_id_bucket_id_fk: a task row may carry bucketId only if it is
\* the id of a row of "bucket"; the statement fails otherwise
ForeignKeyHolds(d, bucketId) == BucketRows(d, bucketId) # {}

\* an insert under a unique constraint on the owner and the normalized name:
\* the statement fails and writes nothing when such a row is stored
InsertBucket_UniqueNormalizedName(d, name, userId) ==
  IF \E i \in DOMAIN d.buckets :
       /\ d.buckets[i].userId = userId
       /\ SelectSeq(ToLowerCase(d.buckets[i].name), LAMBDA c : c \notin SpaceChars)
            = SelectSeq(ToLowerCase(name), LAMBDA c : c \notin SpaceChars)
  THEN d
  ELSE [d EXCEPT !.buckets = Append(@, [id |-> d.nextId, name |-> name, userId |-> userId]),
                 !.nextId = @ + 1,
                 !.writes = Append(@, [stmt |-> "insert bucket", id |-> d.nextId])]

\* db.insert(bucketTable).values({id: randomUUID(), name, userId, ...})
InsertBucket(d, name, userId) ==
  [d EXCEPT !.buckets = Append(@, [id |-> d.nextId, name |-> name, userId |-> userId]),
            !.nextId = @ + 1,
            !.writes = Append(@, [stmt |-> "insert bucket", id |-> d.nextId])]

\* db.insert(taskTable).values({...}); the caller has checked task_bucket_id_bucket_id_fk
InsertTask(d, bucketId, raw, assignmentName, description, dueDate) ==
  [d EXCEPT !.tasks = Append(@, [id |-> d.nextId, bucketId |-> bucketId, raw |-> raw,
                                 assignmentName |-> assignmentName,
                                 description |-> description, dueDate |-> dueDate]),
            !.nextId = @ + 1,
            !.writes = Append(@, [stmt |-> "insert task", id |-> d.nextId])]

\* a delete of the bucket row that leaves the tasks of the bucket in place
DeleteBucketRow_KeepsTasks(d, bucketId) ==
  [d EXCEPT !.buckets = SelectSeq(@, LAMBDA b : b.id # bucketId),
            !.writes = Append(@, [stmt |-> "delete bucket", id |-> bucketId])]

\* db.delete(bucketTable).where(eq(bucketTable.id, bucketId)), with the
\* ON DELETE cascade of task_bucket_id_bucket_id_fk
DeleteBucketRow(d, bucketId) ==
  [d EXCEPT !.buckets = SelectSeq(@, LAMBDA b : b.id # bucketId),
            !.tasks = SelectSeq(@, LAMBDA t : t.bucketId # bucketId),
            !.writes = Append(@, [stmt |-> "delete bucket", id |-> bucketId])]

\* a statement that marks the task completed and keeps its row
DeleteTaskRow_KeepsRow(d, taskId) ==
  [d EXCEPT !.writes = Append(@, [stmt |-> "update task", id |-> taskId])]

\* db.delete(taskTable).where(eq(taskTable.id, taskId))
DeleteTaskRow(d, taskId) ==
  [d EXCEPT !.tasks = SelectSeq(@, LAMBDA t : t.id # taskId),
            !.writes = Append(@, [stmt |-> "delete task", id |-> taskId])]

\* db.update(bucketTable).set({name, updatedAt}).where(eq(bucketTable.id, bucketId))
UpdateBucketRow(d, bucketId, name) ==
  [d EXCEPT !.buckets = [i \in DOMAIN @ |-> IF @[i].id = bucketId THEN [@[i] EXCEPT !.name = name] ELSE @[i]],
            !.writes = Append(@, [stmt |-> "update bucket", id |-> bucketId])]

\* an update that also rewrites the raw text with the new assignment name
UpdateTaskRow_RewritesRaw(d, taskId, assignmentName, description, dueDate, bucketId) ==
  [d EXCEPT !.tasks = [i \in DOMAIN @ |->
                         IF @[i].id = taskId
                         THEN [@[i] EXCEPT !.assignmentName = IF assignmentName = Undefined THEN @ ELSE assignmentName,
                                           !.raw = IF assignmentName = Undefined THEN @ ELSE assignmentName,
                                           !.description = IF description = Undefined THEN @ ELSE description,
                                           !.dueDate = IF dueDate = NullDate THEN @ ELSE dueDate,
                                           !.bucketId = IF bucketId = NoId THEN @ ELSE bucketId]
                         ELSE @[i]],
            !.writes = Append(@, [stmt |-> "update task", id |-> taskId])]

\* an update that writes NULL for a due date that is left out
UpdateTaskRow_ClearsOmittedDueDate(d, taskId, assignmentName, description, dueDate, bucketId) ==
  [d EXCEPT !.tasks = [i \in DOMAIN @ |->
                         IF @[i].id = taskId
                         THEN [@[i] EXCEPT !.assignmentName = IF assignmentName = Undefined THEN @ ELSE assignmentName,
                                           !.description = IF description = Undefined THEN @ ELSE description,
                                           !.dueDate = dueDate,
                                           !.bucketId = IF bucketId = NoId THEN @ ELSE bucketId]
                         ELSE @[i]],
            !.writes = Append(@, [stmt |-> "update task", id |-> taskId])]

\* db.update(taskTable).set({...}).where(eq(taskTable.id, taskId)): a value
\* that is undefined is left out of the SET clause
UpdateTaskRow(d, taskId, assignmentName, description, dueDate, bucketId) ==
  [d EXCEPT !.tasks = [i \in DOMAIN @ |->
                         IF @[i].id = taskId
                         THEN [@[i] EXCEPT !.assignmentName = IF assignmentName = Undefined THEN @ ELSE assignmentName,
                                           !.description = IF description = Undefined THEN @ ELSE description,
                                           !.dueDate = IF dueDate = NullDate THEN @ ELSE dueDate,
                                           !.bucketId = IF bucketId = NoId THEN @ ELSE bucketId]
                         ELSE @[i]],
            !.writes = Append(@, [stmt |-> "update task", id |-> taskId])]

\* the same join without the condition on bucket.userId
OwnedTaskRows_AnyOwner(d, userId, taskId) == TaskRows(d, taskId)

\* select ... from task inner join bucket where task.id = taskId and bucket.userId = userId
OwnedTaskRows(d, userId, taskId) ==
  {t \in TaskRows(d, taskId) : \E b \in BucketRows(d, t.bucketId) : b.userId = userId}

\* the same select without the condition on bucket.userId
OwnedBucketRows_AnyOwner(d, userId, bucketId) == BucketRows(d, bucketId)

\* select ... from bucket where bucket.id = bucketId and bucket.userId = userId
OwnedBucketRows(d, userId, bucketId) == {b \in BucketRows(d, bucketId) : b.userId = userId}

(***************************************************************************)
(* Read-side projections.                                                  *)
(***************************************************************************)
\* formatTaskRecord(task)
formatTaskRecord(task) ==
  [id |-> task.id,
   raw |-> task.raw,
   assignmentName |-> task.assignmentName,
   dueDate |-> SplitDate(task.dueDate),
   dueTime |-> SplitTime(task.dueDate),
   description |-> task.description,
   typeTag |-> categorizeTaskType(task.raw, task.description, task.assignmentName)]

\* the name that DEFAULT_BUCKET_NAMES[0] denotes
DEFAULT_BUCKET_NAME == sEvents

\* a get-or-create that does not look first
ensureDefaultBuckets_AlwaysInserts(d, userId) == InsertBucket(d, DEFAULT_BUCKET_NAME, userId)

\* ensureDefaultBuckets(userId)
ensureDefaultBuckets(d, userId) ==
  IF \E i \in DOMAIN d.buckets : d.buckets[i].userId = userId /\ d.buckets[i].name = DEFAULT_BUCKET_NAME
  THEN d
  ELSE InsertBucket(d, DEFAULT_BUCKET_NAME, userId)

\* the two selects and the grouping of loadBuckets
BucketView(d, userId) ==
  LET bucketRows == SelectSeq(d.buckets, LAMBDA b : b.userId = userId)
  IN [i \in DOMAIN bucketRows |->
        [id |-> bucketRows[i].id,
         name |-> bucketRows[i].name,
         items |-> LET rows == SelectSeq(d.tasks, LAMBDA t : t.bucketId = bucketRows[i].id)
                   IN [k \in DOMAIN rows |-> formatTaskRecord(rows[k])]]]

\* lines 73-103 of loadBuckets, on the database d1 that ensureDefaultBuckets left
LoadFrom(d1, userId) == [d |-> d1, status |-> "ok", ret |-> BucketView(d1, userId)]

\* loadBuckets without the early return for an empty user id
loadBuckets_NoUserCheck(d, userId) == LoadFrom(ensureDefaultBuckets(d, userId), userId)

\* loadBuckets(userId): the database after the call and the value returned
loadBuckets(d, userId) ==
  IF userId = NoUser THEN [d |-> d, status |-> "ok", ret |-> <<>>]
  ELSE LoadFrom(ensureDefaultBuckets(d, userId), userId)

\* a projection that derives the tag from the raw text alone
CalendarEntry_TagFromRawOnly(d, task) ==
  [id |-> task.id,
   bucketName |-> (CHOOSE b \in BucketRows(d, task.bucketId) : TRUE).name,
   assignmentName |-> task.assignmentName,
   raw |-> task.raw,
   dueDate |-> SplitDate(task.dueDate),
   dueTime |-> SplitTime(task.dueDate),
   description |-> task.description,
   typeTag |-> categorizeTaskType(task.raw, Undefined, Undefined)]

\* the CalendarTask built from a joined row, as getTaskById returns it;
\* loadCalendarTasks puts its grouping key in dueDate
CalendarEntry(d, task) ==
  [id |-> task.id,
   bucketName |-> (CHOOSE b \in BucketRows(d, task.bucketId) : TRUE).name,
   assignmentName |-> task.assignmentName,
   raw |-> task.raw,
   dueDate |-> SplitDate(task.dueDate),
   dueTime |-> SplitTime(task.dueDate),
   description |-> task.description,
   typeTag |-> categorizeTaskType(task.raw, task.description, task.assignmentName)]

\* an ORDER BY task.created_at alone
RowBefore_CreatedAtOnly(d, i, j) == i < j

\* ORDER BY task.due_date, task.created_at on positions of d.tasks (NULL sorts last)
RowBefore(d, i, j) ==
  LET a == d.tasks[i].dueDate
      b == d.tasks[j].dueDate
  IN IF a = b THEN i < j
     ELSE IF a = NullDate THEN FALSE
     ELSE IF b = NullDate THEN TRUE
     ELSE a < b

\* the positions in d.tasks of the rows the calendar query returns, in its order
CalendarRows(d, userId) ==
  LET own == SelectSeq([i \in DOMAIN d.tasks |-> i],
                       LAMBDA i : \E b \in BucketRows(d, d.tasks[i].bucketId) : b.userId = userId)
  IN SortSeq(own, LAMBDA i, j : RowBefore(d, i, j))

\* the key a row is grouped under
CalendarKey(task) ==
  IF task.dueDate = NullDate THEN <<"u","n","s","c","h","e","d","u","l","e","d">> ELSE IsoDate(task.dueDate)

RECURSIVE GroupRows(_, _, _)
\* the loop of loadCalendarTasks: grouped is a sequence of [key, tasks] in insertion order
GroupRows(d, rows, grouped) ==
  IF rows = <<>> THEN grouped
  ELSE LET task == d.tasks[Head(rows)]
           key == CalendarKey(task)
           entry == [CalendarEntry(d, task) EXCEPT !.dueDate = key]
           at == {g \in DOMAIN grouped : grouped[g].key = key}
       IN GroupRows(d, Tail(rows),
                    IF at = {} THEN Append(grouped, [key |-> key, tasks |-> <<entry>>])
                    ELSE [g \in DOMAIN grouped |->
                            IF g \in at THEN [grouped[g] EXCEPT !.tasks = Append(@, entry)] ELSE grouped[g]])

\* loadCalendarTasks(userId)
loadCalendarTasks(d, userId) ==
  IF userId = NoUser THEN [d |-> d, status |-> "ok", ret |-> <<>>]
  ELSE [d |-> d, status |-> "ok", ret |-> GroupRows(d, CalendarRows(d, userId), <<>>)]

(***************************************************************************)
(* The classification client.                                              *)
(*                                                                         *)
(* The model's reply is an input: response.call is "fails" when            *)
(* openai.chat.completions.create rejects, else "returns";                 *)
(* response.content is "absent" (no choices[0].message.content),           *)
(* "malformed" (text JSON.parse rejects) or "json"; response.json is the   *)
(* kind of JSON value written: "null", "array" or "object"; for an object, *)
(* bucketId, newBucketName and parsedTask are its fields of those names    *)
(* (NoId / Undefined / present = FALSE when the field is missing).         *)
(***************************************************************************)
\* the object {} read as a ParsedTask
EmptyParsedTask ==
  [present |-> FALSE, assignmentName |-> Undefined, dueDate |-> Undefined, dueTime |-> Undefined,
   description |-> Undefined, courseCategory |-> Undefined, typeTag |-> NoTag]

\* the object {} read as an AssignmentResult
EmptyAssignment == [value |-> "object", bucketId |-> NoId, newBucketName |-> Undefined, parsedTask |-> EmptyParsedTask]

\* JSON.parse(content) as AssignmentResult: the cast checks nothing, so a value
\* that is no object, or an object without the fields, reads as one whose
\* fields are all undefined
JsonParse(response) ==
  CASE response.json = "null" -> [EmptyAssignment EXCEPT !.value = "null"]
    [] response.json = "array" -> [EmptyAssignment EXCEPT !.value = "array"]
    [] response.json = "object" ->
         [value |-> "object", bucketId |-> response.bucketId,
          newBucketName |-> response.newBucketName, parsedTask |-> response.parsedTask]

\* a classifier whose catch block returns the empty object instead of undefined
analyzeTaskWithAI_CatchReturnsEmptyObject(response) ==
  IF response.call = "fails" THEN EmptyAssignment
  ELSE IF response.content = "absent" THEN EmptyAssignment
  ELSE IF response.content = "malformed" THEN EmptyAssignment
  ELSE JsonParse(response)

\* what analyzeTaskWithAI returns: value = "undefined" for no suggestion
analyzeTaskWithAI(response) ==
  IF response.call = "fails" THEN [EmptyAssignment EXCEPT !.value = "undefined"]
  ELSE IF response.content = "absent" THEN EmptyAssignment
  ELSE IF response.content = "malformed" THEN [EmptyAssignment EXCEPT !.value = "undefined"]
  ELSE JsonParse(response)

\* !assignment
NoAssignment(assignment) == assignment.value \in {"undefined", "null"}

\* bucketName.toLowerCase().replace(/\s+/g, '')
NormalizeName(name) == StripWhitespace(ToLowerCase(name))

\* a find that returns the last match instead of the first
FirstMatch_Last(matches) ==
  IF matches = {} THEN 0 ELSE CHOOSE i \in matches : \A j \in matches : j <= i

\* existingBuckets.find(pred) walks the array from the front: the least of
\* the positions whose bucket satisfies pred, 0 if there is none
FirstMatch(matches) ==
  IF matches = {} THEN 0 ELSE CHOOSE i \in matches : \A j \in matches : i <= j

\* VALID_TASK_TYPES.includes(typeTag)
IsValidTaskType(typeTag) == \E i \in DOMAIN VALID_TASK_TYPES : VALID_TASK_TYPES[i] = typeTag

(***************************************************************************)
(* The handlers.  Each returns [d, status, ret] and further fields that    *)
(* record what it decided: d is the database after the call, status is     *)
(* "ok" or "error" (the promise rejects), ret is the value returned.       *)
(***************************************************************************)
\* a handler that throws: nothing more is written, nothing is returned
Throw(d) == [d |-> d, status |-> "error", ret |-> <<>>]

\* ensureOpenAIConfigured(): throws when OPENAI_API_KEY is not set
ensureOpenAIConfigured(apiKey) == apiKey

\* what a call of assignTaskToBucket decided, when it decided nothing
NoDecision ==
  [existing |-> <<>>, suggested |-> FALSE, target |-> NoId, created |-> NoId, taskId |-> NoId, typeTag |-> NoTag]

\* a handler that returns the buckets as they were read before the task insert
SaveTask_ReturnsStateBeforeInsert(d3, existingBuckets, targetId, created, trimmedTask, userId, parsedTask, tz) ==
  LET assignmentName == OrElse(parsedTask.assignmentName, OrElse(parsedTask.courseCategory, sTask))
      dueDate == composeDueDate(parsedTask.dueDate, parsedTask.dueTime, tz)
      decided == [existing |-> existingBuckets, suggested |-> TRUE, target |-> targetId,
                  created |-> created, taskId |-> d3.nextId, typeTag |-> NoTag]
  IN IF ~ForeignKeyHolds(d3, targetId)
     THEN Throw(d3) @@ [decided EXCEPT !.taskId = NoId]
     ELSE [d |-> InsertTask(d3, targetId, trimmedTask, assignmentName,
                            OrElse(parsedTask.description, trimmedTask), dueDate),
           status |-> "ok",
           ret |-> loadBuckets(d3, userId).ret]
          @@ decided

\* lines 152-172 of assignTaskToBucket: the task is saved to the bucket
\* targetId in database d3 and the buckets are loaded again
SaveTask(d3, existingBuckets, targetId, created, trimmedTask, userId, parsedTask, tz) ==
  LET assignmentName == OrElse(parsedTask.assignmentName, OrElse(parsedTask.courseCategory, sTask))
      dueDate == composeDueDate(parsedTask.dueDate, parsedTask.dueTime, tz)
      typeTag == IF parsedTask.typeTag # NoTag /\ IsValidTaskType(parsedTask.typeTag)
                 THEN parsedTask.typeTag
                 ELSE categorizeTaskType(trimmedTask, parsedTask.description, parsedTask.assignmentName)
      decided == [existing |-> existingBuckets, suggested |-> TRUE, target |-> targetId,
                  created |-> created, taskId |-> d3.nextId, typeTag |-> typeTag]
  IN \* task_bucket_id_bucket_id_fk rejects a bucket id that is no row of "bucket"
     IF ~ForeignKeyHolds(d3, targetId)
     THEN Throw(d3) @@ [decided EXCEPT !.taskId = NoId]
     ELSE loadBuckets(InsertTask(d3, targetId, trimmedTask, assignmentName,
                                 OrElse(parsedTask.description, trimmedTask), dueDate), userId)
          @@ decided

\* lines 129-150 of assignTaskToBucket: found is the position in
\* existingBuckets of the target bucket, 0 when a bucket has to be created
CreateTarget(d2, existingBuckets, found, bucketName, trimmedTask, userId, parsedTask, tz) ==
  IF found # 0
  THEN SaveTask(d2, existingBuckets, existingBuckets[found].id, NoId, trimmedTask, userId, parsedTask, tz)
  ELSE SaveTask(InsertBucket(d2, bucketName, userId), existingBuckets, d2.nextId, d2.nextId,
                trimmedTask, userId, parsedTask, tz)

\* a lookup of the suggested id among all stored buckets, not the loaded ones
ResolveTarget_IdAmongAllRows(d2, existingBuckets, assignment, trimmedTask, userId, tz) ==
  LET bucketName == OrElse(assignment.newBucketName, OrElse(assignment.parsedTask.courseCategory, sOthers))
      normalizedName == NormalizeName(bucketName)
      byName == FirstMatch({i \in DOMAIN existingBuckets : NormalizeName(existingBuckets[i].name) = normalizedName})
  IN IF BucketRows(d2, assignment.bucketId) # {}
     THEN SaveTask(d2, existingBuckets, assignment.bucketId, NoId, trimmedTask, userId, assignment.parsedTask, tz)
     ELSE CreateTarget(d2, existingBuckets, byName, bucketName, trimmedTask, userId, assignment.parsedTask, tz)

\* lines 126-136 of assignTaskToBucket: the target bucket is looked up by the
\* suggested id, then by the normalized candidate name
ResolveTarget(d2, existingBuckets, assignment, trimmedTask, userId, tz) ==
  LET byId == FirstMatch({i \in DOMAIN existingBuckets : existingBuckets[i].id = assignment.bucketId})
      bucketName == OrElse(assignment.newBucketName, OrElse(assignment.parsedTask.courseCategory, sOthers))
      normalizedName == NormalizeName(bucketName)
      byName == FirstMatch({i \in DOMAIN existingBuckets : NormalizeName(existingBuckets[i].name) = normalizedName})
  IN CreateTarget(d2, existingBuckets, IF byId # 0 THEN byId ELSE byName, bucketName,
                  trimmedTask, userId, assignment.parsedTask, tz)

\* lines 119-124 of assignTaskToBucket: loaded is the result of loadBuckets
Classify(loaded, trimmedTask, userId, assignment, tz) ==
  IF NoAssignment(assignment)
  THEN loadBuckets(loaded.d, userId) @@ [NoDecision EXCEPT !.existing = loaded.ret]
  ELSE ResolveTarget(loaded.d, loaded.ret, assignment, trimmedTask, userId, tz)

\* a handler that ensures the default bucket before it checks the credential
AssignTrimmed_DefaultBeforeCredential(d, trimmedTask, userId, response, tz, apiKey) ==
  IF trimmedTask = <<>> \/ userId = NoUser THEN loadBuckets(d, userId) @@ NoDecision
  ELSE IF ~ensureOpenAIConfigured(apiKey) THEN Throw(ensureDefaultBuckets(d, userId)) @@ NoDecision
  ELSE Classify(loadBuckets(ensureDefaultBuckets(d, userId), userId), trimmedTask, userId,
                analyzeTaskWithAI(response), tz)

\* lines 111-117 of assignTaskToBucket
AssignTrimmed(d, trimmedTask, userId, response, tz, apiKey) ==
  IF trimmedTask = <<>> \/ userId = NoUser THEN loadBuckets(d, userId) @@ NoDecision
  ELSE IF ~ensureOpenAIConfigured(apiKey) THEN Throw(d) @@ NoDecision
  ELSE Classify(loadBuckets(ensureDefaultBuckets(d, userId), userId), trimmedTask, userId,
                analyzeTaskWithAI(response), tz)

\* assignTaskToBucket(task, userId); response is the model's reply, tz the
\* server's zone offset, apiKey whether OPENAI_API_KEY is set
assignTaskToBucket(d, task, userId, response, tz, apiKey) ==
  AssignTrimmed(d, Trim(task), userId, response, tz, apiKey)

\* a protection check that also strips whitespace
IsDefaultBucketName_Normalized(bucketName) == NormalizeName(DEFAULT_BUCKET_NAME) = NormalizeName(bucketName)

\* DEFAULT_BUCKET_NAMES.some((name) => name.toLowerCase() === bucketName.toLowerCase())
IsDefaultBucketName(bucketName) == ToLowerCase(DEFAULT_BUCKET_NAME) = ToLowerCase(bucketName)

\* deleteBucket(userId, bucketId)
deleteBucket(d, userId, bucketId) ==
  IF userId = NoUser \/ bucketId = NoId THEN loadBuckets(d, userId)
  ELSE IF OwnedBucketRows(d, userId, bucketId) = {} THEN loadBuckets(d, userId)
  ELSE IF IsDefaultBucketName((CHOOSE b \in OwnedBucketRows(d, userId, bucketId) : TRUE).name)
       THEN loadBuckets(d, userId)
  ELSE loadBuckets(DeleteBucketRow(d, bucketId), userId)

\* completeTask(userId, taskId)
completeTask(d, userId, taskId) ==
  IF userId = NoUser \/ taskId = NoId THEN loadBuckets(d, userId)
  ELSE IF OwnedTaskRows(d, userId, taskId) = {} THEN loadBuckets(d, userId)
  ELSE loadBuckets(DeleteTaskRow(d, taskId), userId)

\* createEmptyBucket(userId, bucketName)
createEmptyBucket(d, userId, bucketName) ==
  IF userId = NoUser \/ bucketName = Undefined \/ Trim(bucketName) = <<>> THEN loadBuckets(d, userId)
  ELSE loadBuckets(InsertBucket(d, Trim(bucketName), userId), userId)

\* updateBucketName(userId, bucketId, newName)
updateBucketName(d, userId, bucketId, newName) ==
  IF userId = NoUser \/ bucketId = NoId \/ newName = Undefined \/ Trim(newName) = <<>>
  THEN loadBuckets(d, userId)
  ELSE IF OwnedBucketRows(d, userId, bucketId) = {} THEN loadBuckets(d, userId)
  ELSE IF IsDefaultBucketName((CHOOSE b \in OwnedBucketRows(d, userId, bucketId) : TRUE).name)
       THEN loadBuckets(d, userId)
  ELSE loadBuckets(UpdateBucketRow(d, bucketId, Trim(newName)), userId)

\* getTaskById(userId, taskId): ret is <<>> for null, else <<the CalendarTask>>
getTaskById(d, userId, taskId) ==
  IF userId = NoUser \/ taskId = NoId THEN [d |-> d, status |-> "ok", ret |-> <<>>]
  ELSE IF OwnedTaskRows(d, userId, taskId) = {} THEN [d |-> d, status |-> "ok", ret |-> <<>>]
  ELSE [d |-> d, status |-> "ok",
        ret |-> <<CalendarEntry(d, CHOOSE t \in OwnedTaskRows(d, userId, taskId) : TRUE)>>]

\* lines 357-370 of updateTask: the update statement and the reload; a
\* statement that matches no row changes nothing and cannot fail
UpdateOwnedTask(d, userId, taskId, updates, tz) ==
  LET dueDate == IF Truthy(updates.dueDate) THEN composeDueDate(updates.dueDate, updates.dueTime, tz)
                 ELSE NullDate
  IN \* task_bucket_id_bucket_id_fk rejects a bucket id that is no row of "bucket"
     IF TaskRows(d, taskId) # {} /\ updates.bucketId # NoId /\ ~ForeignKeyHolds(d, updates.bucketId)
     THEN Throw(d)
     ELSE loadCalendarTasks(UpdateTaskRow(d, taskId, updates.assignmentName, updates.description,
                                          dueDate, updates.bucketId), userId)

\* updateTask(userId, taskId, updates)
updateTask(d, userId, taskId, updates, tz) ==
  IF userId = NoUser \/ taskId = NoId THEN loadCalendarTasks(d, userId)
  ELSE IF OwnedTaskRows(d, userId, taskId) = {} THEN loadCalendarTasks(d, userId)
  ELSE UpdateOwnedTask(d, userId, taskId, updates, tz)

\* deleteTaskFromCalendar(userId, taskId)
deleteTaskFromCalendar(d, userId, taskId) == loadCalendarTasks(completeTask(d, userId, taskId).d, userId)

(***************************************************************************)
(* The state machine: one server action runs at a time.                    *)
(***************************************************************************)
VARIABLES
  buckets,    \* the rows of "bucket", in creation order
  tasks,      \* the rows of "task", in creation order
  nextId,     \* the next fresh row id
  tz,         \* minutes the server's time zone is ahead of UTC
  createdBy,  \* history: for each stored task, the user whose assign-task call inserted it
  last,       \* the call that has just run: its arguments, the rows before it, what it wrote and returned
  inflight    \* a call that has read the rows it decides on and has its writes still to make

vars == <<buckets, tasks, nextId, tz, createdBy, last, inflight>>

\* the server zones considered: UTC and India (UTC+05:30)
TzOffsets == {0, 330}

\* an id that is never the id of a row
UnknownId == MaxIds + 1

Ids == 0..UnknownId

\* texts typed by a user
BlankTexts == {sEmpty, sBlank}
TaskTexts == {tQuizPadded, tApush}

\* parsedTask objects the model may write
ptChapter5 ==
  [EmptyParsedTask EXCEPT !.present = TRUE, !.assignmentName = sChapter5, !.typeTag = "Homework",
                          !.dueDate = d20241118]

ptLab ==
  [EmptyParsedTask EXCEPT !.present = TRUE, !.assignmentName = sEmpty,
                          !.courseCategory = sComputerScience, !.typeTag = "Bogus",
                          !.dueDate = d20241118, !.dueTime = t1400, !.description = sLabReport]

ParsedTasks == {EmptyParsedTask, ptChapter5, ptLab}

SuggestedNames == {Undefined, sAPUSH, sEventsUpper}

\* a reply that carries no JSON object
Reply(call, content, json) ==
  [call |-> call, content |-> content, json |-> json,
   bucketId |-> NoId, newBucketName |-> Undefined, parsedTask |-> EmptyParsedTask]

\* a reply that is a JSON object with the given fields
ObjectReply(bucketId, newBucketName, parsedTask) ==
  [call |-> "returns", content |-> "json", json |-> "object",
   bucketId |-> bucketId, newBucketName |-> newBucketName, parsedTask |-> parsedTask]

\* the replies of the model: failures, values that are no object, objects
\* that name a bucket by name, and objects that name a bucket by id
Responses ==
  {Reply("fails", "absent", "null"), Reply("returns", "absent", "null"),
   Reply("returns", "malformed", "null"), Reply("returns", "json", "null"),
   Reply("returns", "json", "array")}
  \cup {ObjectReply(NoId, n, p) : n \in SuggestedNames, p \in ParsedTasks}
  \cup {ObjectReply(b, sEventsUpper, ptChapter5) : b \in {UnknownId} \cup {buckets[i].id : i \in DOMAIN buckets}}

\* the calls of assignTaskToBucket: [userId, task, response, apiKey], apiKey
\* telling whether OPENAI_API_KEY is set when the call is made
AssignCalls ==
  {[userId |-> u, task |-> t, response |-> Reply("fails", "absent", "null"), apiKey |-> k] :
     u \in Users \cup {NoUser}, t \in BlankTexts, k \in BOOLEAN}
  \cup {[userId |-> NoUser, task |-> t, response |-> Reply("fails", "absent", "null"), apiKey |-> k] :
          t \in TaskTexts, k \in BOOLEAN}
  \cup {[userId |-> u, task |-> t, response |-> Reply("fails", "absent", "null"), apiKey |-> FALSE] :
          u \in Users, t \in TaskTexts}
  \cup {[userId |-> u, task |-> t, response |-> r, apiKey |-> TRUE] :
          u \in Users, t \in TaskTexts, r \in Responses}

\* names typed for a new bucket and for a rename
CreateNames == {sBlank, sEventsLower, sEventsSpaced}
RenameNames == {sBlank, sComputerScienceJoined}

\* partial updates of a task
NoUpdates ==
  [assignmentName |-> Undefined, description |-> Undefined, dueDate |-> Undefined,
   dueTime |-> Undefined, bucketId |-> NoId]

Updates ==
  {[NoUpdates EXCEPT !.bucketId = b] : b \in Ids}
  \cup {[NoUpdates EXCEPT !.assignmentName = sLabReport],
        [NoUpdates EXCEPT !.dueDate = d20241118, !.dueTime = t1400],
        [NoUpdates EXCEPT !.dueTime = t1400],
        [NoUpdates EXCEPT !.dueDate = dSoon]}

\* the calls of updateTask: [userId, taskId, updates]; a call whose task id
\* is not a task of the caller never reads its updates
UpdateCalls ==
  {[userId |-> u, taskId |-> t, updates |-> NoUpdates] : u \in Users \cup {NoUser}, t \in Ids}
  \cup {[userId |-> u, taskId |-> t, updates |-> x] :
          u \in Users, t \in {tasks[i].id : i \in DOMAIN tasks}, x \in Updates}

NoArgs == [text |-> Undefined, id |-> NoId, name |-> Undefined, response |-> Reply("fails", "absent", "null"),
           updates |-> NoUpdates, apiKey |-> TRUE]


\* no call is in progress and no result is outstanding
Idle == [op |-> "idle", userId |-> NoUser, args |-> NoArgs,
         pre |-> [buckets |-> <<>>, tasks |-> <<>>],
         writes |-> <<>>, status |-> "ok", ret |-> <<>>, info |-> NoDecision]

\* the database a handler starts from
DB == [buckets |-> buckets, tasks |-> tasks, nextId |-> nextId, writes |-> <<>>]

\* no call is suspended between its reads and its writes
NoFlight == [op |-> "none", userId |-> NoUser, task |-> Undefined, response |-> Reply("fails", "absent", "null"),
             existing |-> <<>>, taskId |-> NoId, updates |-> NoUpdates]

Init ==
  /\ buckets = <<>>
  /\ tasks = <<>>
  /\ nextId = 1
  /\ tz \in TzOffsets
  /\ createdBy = {}
  /\ last = Idle
  /\ inflight = NoFlight

\* the effect of the statements of a call of op by userId with result r: the
\* rows are written and the result is on its way to the caller
Write(op, userId, args, r, info) ==
  /\ r.d.nextId <= MaxIds + 1
  /\ buckets' = r.d.buckets
  /\ tasks' = r.d.tasks
  /\ nextId' = r.d.nextId
  /\ createdBy' = {c \in createdBy : TaskRows(r.d, c.task) # {}}
                    \cup (IF info.taskId # NoId THEN {[task |-> info.taskId, user |-> userId]} ELSE {})
  /\ last' = [op |-> op, userId |-> userId, args |-> args,
              pre |-> [buckets |-> buckets, tasks |-> tasks],
              writes |-> r.d.writes, status |-> r.status, ret |-> r.ret, info |-> info]
  /\ UNCHANGED tz

\* a call of op that runs from its first statement to its last
Commit(op, userId, args, r, info) ==
  /\ Write(op, userId, args, r, info)
  /\ UNCHANGED inflight

LoadBuckets ==
  /\ last.op = "idle"
  /\ \E userId \in Users \cup {NoUser} :
    \E r \in {loadBuckets(DB, userId)} :
      Commit("loadBuckets", userId, NoArgs, r, NoDecision)

AssignTask ==
  /\ last.op = "idle"
  /\ \E call \in AssignCalls :
       \E r \in {assignTaskToBucket(DB, call.task, call.userId, call.response, tz, call.apiKey)} :
         Commit("assignTask", call.userId,
                [NoArgs EXCEPT !.text = call.task, !.response = call.response, !.apiKey = call.apiKey], r,
                [existing |-> r.existing, suggested |-> r.suggested, target |-> r.target,
                 created |-> r.created, taskId |-> r.taskId, typeTag |-> r.typeTag])

DeleteBucket ==
  /\ last.op = "idle"
  /\ \E userId \in Users \cup {NoUser}, bucketId \in Ids :
    \E r \in {deleteBucket(DB, userId, bucketId)} :
      Commit("deleteBucket", userId, [NoArgs EXCEPT !.id = bucketId], r, NoDecision)

CompleteTask ==
  /\ last.op = "idle"
  /\ \E userId \in Users \cup {NoUser}, taskId \in Ids :
    \E r \in {completeTask(DB, userId, taskId)} :
      Commit("completeTask", userId, [NoArgs EXCEPT !.id = taskId], r, NoDecision)

CreateEmptyBucket ==
  /\ last.op = "idle"
  /\ \E userId \in Users \cup {NoUser}, bucketName \in CreateNames :
    \E r \in {createEmptyBucket(DB, userId, bucketName)} :
      Commit("createEmptyBucket", userId, [NoArgs EXCEPT !.name = bucketName], r, NoDecision)

UpdateBucketName ==
  /\ last.op = "idle"
  /\ \E userId \in Users \cup {NoUser}, bucketId \in Ids, newName \in RenameNames :
    \E r \in {updateBucketName(DB, userId, bucketId, newName)} :
      Commit("updateBucketName", userId, [NoArgs EXCEPT !.id = bucketId, !.name = newName], r, NoDecision)

GetTaskById ==
  /\ last.op = "idle"
  /\ \E userId \in Users \cup {NoUser}, taskId \in Ids :
    \E r \in {getTaskById(DB, userId, taskId)} :
      Commit("getTaskById", userId, [NoArgs EXCEPT !.id = taskId], r, NoDecision)

UpdateTask ==
  /\ last.op = "idle"
  /\ \E call \in UpdateCalls :
       \E r \in {updateTask(DB, call.userId, call.taskId, call.updates, tz)} :
         Commit("updateTask", call.userId, [NoArgs EXCEPT !.id = call.taskId, !.updates = call.updates], r, NoDecision)

DeleteTaskFromCalendar ==
  /\ last.op = "idle"
  /\ \E userId \in Users \cup {NoUser}, taskId \in Ids :
    \E r \in {deleteTaskFromCalendar(DB, userId, taskId)} :
      Commit("deleteTaskFromCalendar", userId, [NoArgs EXCEPT !.id = taskId], r, NoDecision)

LoadCalendarTasks ==
  /\ last.op = "idle"
  /\ \E userId \in Users \cup {NoUser} :
    \E r \in {loadCalendarTasks(DB, userId)} :
      Commit("loadCalendarTasks", userId, NoArgs, r, NoDecision)

\* the caller receives the result; the next request can be made
Return ==
  /\ last.op # "idle"
  /\ last' = Idle
  /\ UNCHANGED <<buckets, tasks, nextId, tz, createdBy, inflight>>

Next ==
  \/ LoadBuckets
  \/ AssignTask
  \/ DeleteBucket
  \/ CompleteTask
  \/ CreateEmptyBucket
  \/ UpdateBucketName
  \/ GetTaskById
  \/ UpdateTask
  \/ DeleteTaskFromCalendar
  \/ LoadCalendarTasks
  \/ Return

Spec == Init /\ [][Next]_vars

(***************************************************************************)
(* Server actions that overlap.  A handler awaits between its statements,  *)
(* so another request can run between the reads of assignTaskToBucket      *)
(* (lines 117-119, before the classifier is awaited at line 120) and its   *)
(* writes (lines 138-170), and between the ownership select of updateTask  *)
(* (lines 341-351) and its update (lines 357-368).  One such call is       *)
(* suspended at a time while requests that run to completion pass it.      *)
(***************************************************************************)
\* the classifier's replies to a suspended call: a bucket chosen by id
FlightResponses ==
  {ObjectReply(b, sAPUSH, ptChapter5) : b \in {UnknownId} \cup {buckets[i].id : i \in DOMAIN buckets}}

\* lines 111-120 of assignTaskToBucket: the default bucket is ensured, the
\* buckets are loaded and the classifier is asked
BeginAssign ==
  /\ last.op = "idle"
  /\ inflight.op = "none"
  /\ \E userId \in Users, response \in FlightResponses :
       \E r \in {loadBuckets(ensureDefaultBuckets(DB, userId), userId)} :
         /\ Write("assignTask: loaded", userId, [NoArgs EXCEPT !.text = tApush, !.response = response], r, NoDecision)
         /\ inflight' = [NoFlight EXCEPT !.op = "assignTask", !.userId = userId, !.task = Trim(tApush),
                                         !.response = response, !.existing = r.ret]

\* lines 122-172 of assignTaskToBucket, on the rows as they are now and the
\* bucket list as it was loaded
FinishAssign ==
  /\ last.op = "idle"
  /\ inflight.op = "assignTask"
  /\ \E r \in {Classify([d |-> DB, status |-> "ok", ret |-> inflight.existing], inflight.task,
                         inflight.userId, analyzeTaskWithAI(inflight.response), tz)} :
       /\ Write("assignTask", inflight.userId,
                [NoArgs EXCEPT !.text = inflight.task, !.response = inflight.response], r,
                [existing |-> r.existing, suggested |-> r.suggested, target |-> r.target,
                 created |-> r.created, taskId |-> r.taskId, typeTag |-> r.typeTag])
       /\ inflight' = NoFlight

\* lines 340-355 of updateTask: the task was found to be the caller's
BeginUpdate ==
  /\ last.op = "idle"
  /\ inflight.op = "none"
  /\ \E userId \in Users, t \in DOMAIN tasks, bucketId \in Ids \ {NoId} :
       /\ OwnedTaskRows(DB, userId, tasks[t].id) # {}
       /\ inflight' = [NoFlight EXCEPT !.op = "updateTask", !.userId = userId, !.taskId = tasks[t].id,
                                       !.updates = [NoUpdates EXCEPT !.bucketId = bucketId]]
  /\ UNCHANGED <<buckets, tasks, nextId, tz, createdBy, last>>

\* lines 357-370 of updateTask, on the rows as they are now
FinishUpdate ==
  /\ last.op = "idle"
  /\ inflight.op = "updateTask"
  /\ \E r \in {UpdateOwnedTask(DB, inflight.userId, inflight.taskId, inflight.updates, tz)} :
       /\ Write("updateTask", inflight.userId,
                [NoArgs EXCEPT !.id = inflight.taskId, !.updates = inflight.updates], r, NoDecision)
       /\ inflight' = NoFlight

NextInFlight ==
  \/ BeginAssign
  \/ FinishAssign
  \/ BeginUpdate
  \/ FinishUpdate
  \/ CreateEmptyBucket
  \/ DeleteBucket
  \/ UpdateBucketName
  \/ CompleteTask
  \/ Return

SpecInFlight == Init /\ [][NextInFlight]_vars

(***************************************************************************)
(* The pure functions on their own: the due-date composer followed by the  *)
(* read-side split, and the lexical categorizer, applied to inputs that no *)
(* task of the state machines above carries.                               *)
(***************************************************************************)
\* server zones: New York in winter (UTC-05:00), UTC, India (UTC+05:30)
ComposeZones == {-300, 0, 330}

\* date and time strings handed to composeDueDate
ComposeDates == {Undefined, sEmpty, d20241201, d20241118, d20240229, d20240230, d20231231, d20241301}
ComposeTimes == {Undefined, sEmpty, t1400, t2359, t0830, t0000, t140030, t900, t2500, t2400}

\* texts handed to categorizeTaskType
CategorizeRaws ==
  {tQuiz, cQuizTomorrow, cHomeworkAndQuiz, cLabelMaker, cChemistryLab, cFinalExam, cBuyMilk,
   cNotebook, cShowhw, cGamePresentation, cAssignment}
CategorizeDescriptions == {Undefined, cQuizTomorrow, cBuyMilk}
CategorizeNames == {Undefined, sChapter5, sLabReport}

InitPure ==
  /\ buckets = <<>>
  /\ tasks = <<>>
  /\ nextId = 1
  /\ tz \in ComposeZones
  /\ createdBy = {}
  /\ last = Idle
  /\ inflight = NoFlight

\* composeDueDate(dueDate, dueTime); the timestamp is stored in task.due_date
\* and read back through formatTaskRecord
ComposeDueDate ==
  /\ last.op = "idle"
  /\ \E dueDate \in ComposeDates, dueTime \in ComposeTimes :
       \E t \in {composeDueDate(dueDate, dueTime, tz)} :
         last' = [Idle EXCEPT !.op = "composeDueDate",
                              !.args = [NoArgs EXCEPT !.updates = [NoUpdates EXCEPT !.dueDate = dueDate,
                                                                                    !.dueTime = dueTime]],
                              !.ret = <<[stored |-> t,
                                         shown |-> formatTaskRecord([id |-> NoId, bucketId |-> NoId, raw |-> tQuiz,
                                                                     assignmentName |-> Undefined,
                                                                     description |-> Undefined, dueDate |-> t])]>>]
  /\ UNCHANGED <<buckets, tasks, nextId, tz, createdBy, inflight>>

\* categorizeTaskType(task, {description, assignmentName})
CategorizeTaskType ==
  /\ last.op = "idle"
  /\ \E raw \in CategorizeRaws, description \in CategorizeDescriptions, assignmentName \in CategorizeNames :
       last' = [Idle EXCEPT !.op = "categorizeTaskType",
                            !.args = [NoArgs EXCEPT !.text = raw,
                                                    !.updates = [NoUpdates EXCEPT !.description = description,
                                                                                  !.assignmentName = assignmentName]],
                            !.ret = <<categorizeTaskType(raw, description, assignmentName)>>]
  /\ UNCHANGED <<buckets, tasks, nextId, tz, createdBy, inflight>>

NextPure ==
  \/ ComposeDueDate
  \/ CategorizeTaskType
  \/ Return

SpecPure == InitPure /\ [][NextPure]_vars

(***************************************************************************)
(* Requests of two browser tabs: every awaited statement of loadBuckets    *)
(* and assignTaskToBucket is a step of its own, and the steps of the two   *)
(* calls interleave. inflight maps each tab to the call it is running.     *)
(***************************************************************************)
Tabs == {"tab1", "tab2"}

\* a tab that runs no call
NoCall ==
  [op |-> "none", pc |-> "done", stage |-> "none", userId |-> NoUser, existing |-> <<>>,
   response |-> Reply("fails", "absent", "null"), name |-> Undefined, target |-> NoId, created |-> NoId]

InitTabs ==
  /\ buckets = <<>>
  /\ tasks = <<>>
  /\ nextId = 1
  /\ tz \in TzOffsets
  /\ createdBy = {}
  /\ last = Idle
  /\ inflight = [tab \in Tabs |-> NoCall]

\* the replies of the model to a call made from a tab
TabResponses == {Reply("fails", "absent", "null"), ObjectReply(NoId, sAPUSH, ptChapter5)}

\* what a call of a tab has decided so far
TabDecision(call) ==
  [NoDecision EXCEPT !.existing = call.existing, !.suggested = call.pc \in {"insertBucket", "insertTask"},
                     !.target = call.target, !.created = call.created]

\* the arguments of the call of a tab
TabArgs(call) == [NoArgs EXCEPT !.text = tApush, !.response = call.response]

\* where a call goes on after ensureDefaultBuckets: assignTaskToBucket calls
\* loadBuckets next (line 119), loadBuckets makes its selects (lines 73-89)
AfterEnsure(call) ==
  IF call.stage = "ensure" THEN [call EXCEPT !.stage = "load", !.pc = "ensureSelect"]
  ELSE [call EXCEPT !.pc = "select"]

\* a tab calls loadBuckets(userId) or assignTaskToBucket(task, userId), with
\* OPENAI_API_KEY set
TabCall ==
  /\ \E tab \in Tabs, userId \in Users, op \in {"loadBuckets", "assignTask"} :
       /\ inflight[tab].op = "none"
       /\ inflight' = [inflight EXCEPT ![tab] =
                         [NoCall EXCEPT !.op = op, !.userId = userId, !.pc = "ensureSelect",
                                        !.stage = IF op = "assignTask" THEN "ensure" ELSE "return"]]
  /\ UNCHANGED <<buckets, tasks, nextId, tz, createdBy, last>>

\* lines 440-446 of ensureDefaultBuckets: the select
TabEnsureSelect ==
  /\ \E tab \in Tabs :
       LET call == inflight[tab]
           existing == {i \in DOMAIN buckets :
                          buckets[i].userId = call.userId /\ buckets[i].name = DEFAULT_BUCKET_NAME}
       IN /\ call.pc = "ensureSelect"
          /\ inflight' = [inflight EXCEPT ![tab] =
                            IF existing = {} THEN [call EXCEPT !.pc = "ensureInsert"] ELSE AfterEnsure(call)]
  /\ UNCHANGED <<buckets, tasks, nextId, tz, createdBy, last>>

\* lines 448-455 of ensureDefaultBuckets: the insert, made because the
\* select found no row
TabEnsureInsert ==
  \E tab \in Tabs :
    LET call == inflight[tab]
    IN /\ call.pc = "ensureInsert"
       /\ Write("tab: ensureDefaultBuckets", call.userId, TabArgs(call),
                [d |-> InsertBucket(DB, DEFAULT_BUCKET_NAME, call.userId), status |-> "ok", ret |-> <<>>],
                TabDecision(call))
       /\ inflight' = [inflight EXCEPT ![tab] = AfterEnsure(call)]

\* lines 73-103 of loadBuckets: the selects; the list goes to the classifier
\* (line 119) or to the caller (lines 104, 123, 172)
TabSelect ==
  \E tab \in Tabs :
    LET call == inflight[tab]
        view == BucketView(DB, call.userId)
    IN /\ call.pc = "select"
       /\ IF call.stage = "load"
          THEN /\ inflight' = [inflight EXCEPT ![tab] = [call EXCEPT !.existing = view, !.pc = "classify"]]
               /\ UNCHANGED <<buckets, tasks, nextId, tz, createdBy, last>>
          ELSE /\ Write("tab: " \o call.op, call.userId, TabArgs(call),
                        [d |-> DB, status |-> "ok", ret |-> view], TabDecision(call))
               /\ inflight' = [inflight EXCEPT ![tab] = NoCall]

\* lines 120-137 of assignTaskToBucket: the classifier answers and the target
\* is looked up in the list loaded at line 119
TabClassify ==
  /\ \E tab \in Tabs, response \in TabResponses :
       LET call == inflight[tab]
           assignment == analyzeTaskWithAI(response)
           byId == FirstMatch({i \in DOMAIN call.existing : call.existing[i].id = assignment.bucketId})
           bucketName == OrElse(assignment.newBucketName, OrElse(assignment.parsedTask.courseCategory, sOthers))
           byName == FirstMatch({i \in DOMAIN call.existing :
                                   NormalizeName(call.existing[i].name) = NormalizeName(bucketName)})
           found == IF byId # 0 THEN byId ELSE byName
       IN /\ call.pc = "classify"
          /\ inflight' = [inflight EXCEPT ![tab] =
                            IF NoAssignment(assignment)
                            THEN [call EXCEPT !.response = response, !.stage = "return", !.pc = "ensureSelect"]
                            ELSE IF found # 0
                            THEN [call EXCEPT !.response = response, !.target = call.existing[found].id,
                                              !.pc = "insertTask"]
                            ELSE [call EXCEPT !.response = response, !.name = bucketName,
                                              !.pc = "insertBucket"]]
  /\ UNCHANGED <<buckets, tasks, nextId, tz, createdBy, last>>

\* lines 138-150 of assignTaskToBucket: the insert of the new bucket
TabInsertBucket ==
  \E tab \in Tabs :
    LET call == inflight[tab]
        made == [call EXCEPT !.target = nextId, !.created = nextId, !.pc = "insertTask"]
    IN /\ call.pc = "insertBucket"
       /\ Write("tab: insert bucket", call.userId, TabArgs(call),
                [d |-> InsertBucket(DB, call.name, call.userId), status |-> "ok", ret |-> <<>>],
                TabDecision(made))
       /\ inflight' = [inflight EXCEPT ![tab] = made]

\* lines 152-170 of assignTaskToBucket: the insert of the task; line 172
\* follows, or the call ends when the statement fails
TabInsertTask ==
  \E tab \in Tabs :
    LET call == inflight[tab]
        parsedTask == analyzeTaskWithAI(call.response).parsedTask
        assignmentName == OrElse(parsedTask.assignmentName, OrElse(parsedTask.courseCategory, sTask))
        dueDate == composeDueDate(parsedTask.dueDate, parsedTask.dueTime, tz)
    IN /\ call.pc = "insertTask"
       /\ IF ~ForeignKeyHolds(DB, call.target)
          THEN /\ Write("tab: assignTask", call.userId, TabArgs(call), Throw(DB), TabDecision(call))
               /\ inflight' = [inflight EXCEPT ![tab] = NoCall]
          ELSE /\ Write("tab: insert task", call.userId, TabArgs(call),
                        [d |-> InsertTask(DB, call.target, Trim(tApush), assignmentName,
                                          OrElse(parsedTask.description, Trim(tApush)), dueDate),
                         status |-> "ok", ret |-> <<>>],
                        [TabDecision(call) EXCEPT !.taskId = nextId])
               /\ inflight' = [inflight EXCEPT ![tab] = [call EXCEPT !.stage = "return", !.pc = "ensureSelect"]]

NextTabs ==
  \/ TabCall
  \/ TabEnsureSelect
  \/ TabEnsureInsert
  \/ TabSelect
  \/ TabClassify
  \/ TabInsertBucket
  \/ TabInsertTask

SpecTabs == InitTabs /\ [][NextTabs]_vars

(***************************************************************************)
(* Properties.                                                             *)
(*                                                                         *)
(* Pre is the database the last call started from; the state's own rows    *)
(* are the database it left.                                               *)
(***************************************************************************)
Pre == [buckets |-> last.pre.buckets, tasks |-> last.pre.tasks]
Post == [buckets |-> buckets, tasks |-> tasks]

\* the two names are equal after lower-casing and removing all whitespace
SameNormalized(a, b) ==
  SelectSeq(ToLowerCase(a), LAMBDA c : c \notin SpaceChars) = SelectSeq(ToLowerCase(b), LAMBDA c : c \notin SpaceChars)

\* id is the id of a bucket of userId in database d
IsBucketOf(d, userId, id) ==
  \E i \in DOMAIN d.buckets : d.buckets[i].id = id /\ d.buckets[i].userId = userId

\* id is the id of a task stored in a bucket of userId in database d
IsTaskOf(d, userId, id) ==
  \E k \in DOMAIN d.tasks : d.tasks[k].id = id /\ IsBucketOf(d, userId, d.tasks[k].bucketId)

\* the user has a bucket named exactly "Events" in database d
HasDefault(d, userId) ==
  \E i \in DOMAIN d.buckets : d.buckets[i].userId = userId /\ d.buckets[i].name = sEvents

\* the rows of Pre are all still stored, unchanged and in the same order, and
\* the only row added, if any, is the default bucket of userId, added when
\* userId is not empty and had no bucket named exactly "Events"
OnlyDefaultAdded(userId) ==
  /\ tasks = Pre.tasks
  /\ IF userId # NoUser /\ ~HasDefault(Pre, userId)
     THEN /\ Len(buckets) = Len(Pre.buckets) + 1
          /\ SubSeq(buckets, 1, Len(Pre.buckets)) = Pre.buckets
          /\ buckets[Len(buckets)].name = sEvents
          /\ buckets[Len(buckets)].userId = userId
          /\ Len(last.writes) = 1
          /\ last.writes[1].stmt = "insert bucket"
     ELSE /\ buckets = Pre.buckets
          /\ last.writes = <<>>

\* C1: after any sequence of operations, no two buckets of one user have
\* names that are equal after lower-casing and removing all whitespace.
C1_NoDuplicateNormalizedNames ==
  \A i, j \in DOMAIN buckets :
    (i # j /\ buckets[i].userId = buckets[j].userId) => ~SameNormalized(buckets[i].name, buckets[j].name)

\* C2: every stored task is in a bucket owned by the user whose assign-task
\* call created it (update-task with a destination bucket of another user
\* does not move the task).
C2_TaskStaysWithItsCreator ==
  \A c \in createdBy : IsTaskOf(Post, c.user, c.task)

\* the last call was an operation of C3 whose target id is no bucket (task)
\* of the caller in Pre
C3_ForeignTarget ==
  \/ /\ last.op \in {"deleteBucket", "updateBucketName"}
     /\ last.args.id # NoId
     /\ ~IsBucketOf(Pre, last.userId, last.args.id)
  \/ /\ last.op \in {"completeTask", "updateTask", "deleteTaskFromCalendar"}
     /\ last.args.id # NoId
     /\ ~IsTaskOf(Pre, last.userId, last.args.id)

\* the value returned is the caller's current state: the bucket view for
\* delete-bucket, rename-bucket and complete-task, the calendar view for
\* update-task and delete-task-from-calendar
C3_ReturnsCurrentState ==
  IF last.op \in {"updateTask", "deleteTaskFromCalendar"}
  THEN last.ret = (IF last.userId = NoUser THEN <<>>
                   ELSE GroupRows(Post, CalendarRows(Post, last.userId), <<>>))
  ELSE last.ret = (IF last.userId = NoUser THEN <<>> ELSE BucketView(Post, last.userId))

\* C3 (as stated): delete-bucket, rename-bucket, complete-task, update-task
\* and delete-task-from-calendar called with a target id that does not exist
\* or belongs to another user leave the stored buckets and tasks unchanged
\* and return the caller's current state without raising an error.
C3_ForeignTargetLeavesStorageUnchanged ==
  C3_ForeignTarget =>
    /\ last.status = "ok"
    /\ buckets = Pre.buckets
    /\ tasks = Pre.tasks
    /\ C3_ReturnsCurrentState

\* C3 (amended): such a call raises no error, changes or removes no stored
\* bucket or task, returns the caller's current state, and writes nothing
\* except that delete-bucket, rename-bucket, complete-task and
\* delete-task-from-calendar insert the default bucket "Events" for a caller
\* who has no bucket of exactly that name; update-task never writes.
C3_ForeignTargetOnlyAddsDefault ==
  C3_ForeignTarget =>
    /\ last.status = "ok"
    /\ IF last.op = "updateTask"
       THEN buckets = Pre.buckets /\ tasks = Pre.tasks /\ last.writes = <<>>
       ELSE OnlyDefaultAdded(last.userId)
    /\ C3_ReturnsCurrentState

\* a call with a foreign target by a user who already had the default bucket
\* and other rows existed, and one by a user who had none
C3_Witness ==
  /\ C3_ForeignTarget
  /\ last.op = "deleteBucket"
  /\ last.userId # NoUser
  /\ \E u \in Users : IsBucketOf(Pre, u, last.args.id)
  /\ ~HasDefault(Pre, last.userId)
  /\ HasDefault(Post, last.userId)

\* the last call was assign-task with empty or whitespace-only text, or with
\* an empty user id
C4_BlankCall ==
  /\ last.op = "assignTask"
  /\ (last.userId = NoUser \/ \A i \in DOMAIN last.args.text : last.args.text[i] \in SpaceChars)

\* C4 (as stated): assign-task with blank text or empty user id performs no
\* storage write at all and returns the caller's current bucket state
\* unchanged, in every reachable state including the user's first call.
C4_BlankAssignWritesNothing ==
  C4_BlankCall =>
    /\ last.status = "ok"
    /\ last.writes = <<>>
    /\ buckets = Pre.buckets
    /\ tasks = Pre.tasks

\* C4 (amended): assign-task with blank text or empty user id raises no
\* error, inserts no task and changes no stored row; with an empty user id it
\* writes nothing and returns the empty list; with a user id it returns that
\* user's bucket view and its only possible write is the insert of the
\* default bucket "Events" when the user has no bucket of exactly that name.
C4_BlankAssignOnlyAddsDefault ==
  C4_BlankCall =>
    /\ last.status = "ok"
    /\ OnlyDefaultAdded(last.userId)
    /\ last.ret = (IF last.userId = NoUser THEN <<>> ELSE BucketView(Post, last.userId))

\* a blank assign-task as a user's first call, which inserted the default
\* bucket while other rows were stored
C4_Witness ==
  /\ C4_BlankCall
  /\ last.userId # NoUser
  /\ last.args.text # <<>>
  /\ Pre.buckets # <<>>
  /\ Len(buckets) = Len(Pre.buckets) + 1

\* the last call was assign-task with non-blank text by a user, made with
\* the credential set, so that the classifier was asked
C5_Classified ==
  /\ last.op = "assignTask"
  /\ last.userId # NoUser
  /\ \E i \in DOMAIN last.args.text : last.args.text[i] \notin SpaceChars
  /\ last.args.apiKey

\* the classifier gave no suggestion: the model call failed, or its text is no JSON
C5_NoSuggestion ==
  /\ C5_Classified
  /\ \/ last.args.response.call = "fails"
     \/ last.args.response.call = "returns" /\ last.args.response.content = "malformed"

\* the call inserted no task, and no bucket other than the caller's default bucket
NoTaskNoCategoryBucket ==
  /\ tasks = Pre.tasks
  /\ \A i \in DOMAIN buckets :
       ~(\E u \in Users : IsBucketOf(Pre, u, buckets[i].id)) =>
         (buckets[i].name = sEvents /\ buckets[i].userId = last.userId /\ ~HasDefault(Pre, last.userId))
  /\ \A i \in DOMAIN Pre.buckets : \E j \in DOMAIN buckets : buckets[j] = Pre.buckets[i]

\* C5: when the classifier returns no suggestion (call failure or JSON parse
\* failure) for a non-blank text and a non-empty user, assign-task inserts no
\* task and no new category bucket, and the list it returns equals the list
\* loaded for the classifier.
C5_NoSuggestionChangesNothing ==
  C5_NoSuggestion =>
    /\ last.status = "ok"
    /\ NoTaskNoCategoryBucket
    /\ last.ret = last.info.existing
    /\ last.ret = BucketView(Post, last.userId)

\* a failed classification for a user who already has a category bucket and a task
C5_Witness ==
  /\ C5_NoSuggestion
  /\ last.args.response.content = "malformed"
  /\ Len(last.ret) >= 2
  /\ \E i \in DOMAIN last.ret : last.ret[i].items # <<>>

\* the reply parses as JSON (or carries no content) but is no object of the
\* expected schema: absent content, an array, or an object with none of the fields
C6_SchemaMismatch ==
  /\ C5_Classified
  /\ last.args.response.call = "returns"
  /\ \/ last.args.response.content = "absent"
     \/ /\ last.args.response.content = "json"
        /\ \/ last.args.response.json = "array"
           \/ /\ last.args.response.json = "object"
              /\ last.args.response.bucketId = NoId
              /\ last.args.response.newBucketName = Undefined
              /\ ~last.args.response.parsedTask.present

\* C6: a reply that parses as JSON but does not match the expected schema is
\* treated like "no suggestion": assign-task creates no task and no bucket.
C6_SchemaMismatchChangesNothing ==
  C6_SchemaMismatch => (last.status = "ok" /\ NoTaskNoCategoryBucket)

\* the items of all buckets of a returned bucket list
ReturnedItems(ret) == UNION {Range(ret[i].items) : i \in DOMAIN ret}

\* the type tag C7 expects for the task the last call created
C7_ExpectedTag ==
  LET parsed == last.args.response.parsedTask
  IN IF parsed.typeTag \in Range(VALID_TASK_TYPES) THEN parsed.typeTag
     ELSE Categorize(Trim(last.args.text), parsed.description, parsed.assignmentName)

\* C7: the task created by assign-task is returned with the classifier's
\* typeTag when that is one of the eight valid tags, and with the lexical
\* categorizer's result otherwise.
C7_ReturnedTagIsParsedTag ==
  (C5_Classified /\ last.status = "ok" /\ last.info.taskId # NoId /\ last.args.response.json = "object") =>
    \A item \in ReturnedItems(last.ret) : item.id = last.info.taskId => item.typeTag = C7_ExpectedTag

\* the classifier suggested a new bucket name that matches none of the
\* caller's buckets (and no id of one), with an assignment name and a due
\* date but no due time
C8_NewBucketSuggested ==
  LET r == last.args.response
  IN /\ C5_Classified
     /\ last.status = "ok"
     /\ r.call = "returns" /\ r.content = "json" /\ r.json = "object"
     /\ Truthy(r.newBucketName)
     /\ \A i \in DOMAIN last.info.existing :
          /\ last.info.existing[i].id # r.bucketId
          /\ ~SameNormalized(last.info.existing[i].name, r.newBucketName)
     /\ Truthy(r.parsedTask.assignmentName)
     /\ Truthy(r.parsedTask.dueDate)
     /\ ~Truthy(r.parsedTask.dueTime)

\* C8: in that case assign-task returns a state with exactly one new bucket,
\* of the suggested name, holding exactly one task, whose assignmentName and
\* dueDate are the parsed values and whose dueTime is absent.
C8_NewBucketHoldsParsedTask ==
  C8_NewBucketSuggested =>
    LET r == last.args.response
        n == Len(last.ret)
    IN /\ n = Len(last.info.existing) + 1
       /\ SubSeq(last.ret, 1, n - 1) = last.info.existing
       /\ last.ret[n].name = r.newBucketName
       /\ Len(last.ret[n].items) = 1
       /\ last.ret[n].items[1].assignmentName = r.parsedTask.assignmentName
       /\ last.ret[n].items[1].dueDate = r.parsedTask.dueDate
       /\ last.ret[n].items[1].dueTime = Undefined

\* the candidate name assign-task resolves from the suggestion
C9_Candidate ==
  LET r == last.args.response
  IN IF Truthy(r.newBucketName) THEN r.newBucketName
     ELSE IF Truthy(r.parsedTask.courseCategory) THEN r.parsedTask.courseCategory
     ELSE sOthers

\* the positions, in the list loaded for the classifier, of the buckets whose
\* normalized name is that of the candidate
C9_Matches == {i \in DOMAIN last.info.existing : SameNormalized(last.info.existing[i].name, C9_Candidate)}

\* the classifier gave a suggestion whose bucketId is no bucket of the caller
C9_ResolvedByName ==
  /\ C5_Classified
  /\ last.status = "ok"
  /\ last.args.response.call = "returns"
  /\ last.args.response.content = "json" /\ last.args.response.json = "object"
  /\ \A i \in DOMAIN last.info.existing : last.info.existing[i].id # last.args.response.bucketId

\* the positions of the bucket rows the last call added, other than the
\* default bucket it added first for a caller who had none
C9_CategoryRows ==
  LET base == Len(Pre.buckets) + (IF HasDefault(Pre, last.userId) THEN 0 ELSE 1)
  IN {i \in DOMAIN buckets : i > base}

\* C9: assign-task inserts no new bucket when a bucket of the caller has the
\* normalized name of the resolved candidate; it stores the task in the first
\* such bucket in creation order.
C9_ReusesFirstNormalizedMatch ==
  /\ (C5_Classified /\ last.status = "ok") =>
       \A i \in C9_CategoryRows :
         \A j \in DOMAIN buckets :
           (j # i /\ buckets[j].userId = last.userId) => ~SameNormalized(buckets[i].name, buckets[j].name)
  /\ (C9_ResolvedByName /\ C9_Matches # {}) =>
       LET first == CHOOSE i \in C9_Matches : \A j \in C9_Matches : i <= j
       IN /\ LET own == SelectSeq(buckets, LAMBDA b : b.userId = last.userId)
             IN /\ Len(own) = Len(last.info.existing)
                /\ \A i \in DOMAIN own :
                     own[i].id = last.info.existing[i].id /\ own[i].name = last.info.existing[i].name
          /\ C9_CategoryRows = {}
          /\ Len(tasks) = Len(Pre.tasks) + 1
          /\ tasks[Len(tasks)].bucketId = last.info.existing[first].id

\* the candidate matched two buckets of different names, neither spelled like
\* the candidate, and the task went to the older one
C9_Witness ==
  /\ C9_ResolvedByName
  /\ Cardinality(C9_Matches) >= 2
  /\ \A i \in C9_Matches : last.info.existing[i].name # C9_Candidate
  /\ Len(tasks) = Len(Pre.tasks) + 1

\* the last call was delete-bucket or rename-bucket (with a non-blank new
\* name) on a bucket of the caller
C10_OwnBucket ==
  /\ last.op \in {"deleteBucket", "updateBucketName"}
  /\ last.userId # NoUser
  /\ IsBucketOf(Pre, last.userId, last.args.id)
  /\ last.op = "updateBucketName" =>
       \E i \in DOMAIN last.args.name : last.args.name[i] \notin SpaceChars

\* the name the bucket had before the call
C10_Name == (CHOOSE i \in DOMAIN Pre.buckets : Pre.buckets[i].id = last.args.id)

\* C10: delete-bucket and rename-bucket on a bucket of the caller are
\* refused, leaving storage unchanged, exactly when the bucket's name equals
\* "Events" ignoring case, without whitespace stripping.
C10_DefaultNameProtected ==
  C10_OwnBucket =>
    IF ToLowerCase(Pre.buckets[C10_Name].name) = sEventsLower
    THEN last.writes = <<>> /\ buckets = Pre.buckets /\ tasks = Pre.tasks
    ELSE /\ Len(last.writes) = 1
         /\ last.writes[1].id = last.args.id
         /\ last.writes[1].stmt = (IF last.op = "deleteBucket" THEN "delete bucket" ELSE "update bucket")
         /\ IF last.op = "deleteBucket"
            THEN ~IsBucketOf(Post, last.userId, last.args.id)
            ELSE \E i \in DOMAIN buckets : buckets[i].id = last.args.id /\ buckets[i].name = Trim(last.args.name)

\* a delete carried out for the caller's bucket named "E vents"
C10_Witness ==
  /\ C10_OwnBucket
  /\ last.op = "deleteBucket"
  /\ Pre.buckets[C10_Name].name = sEventsSpaced
  /\ ~IsBucketOf(Post, last.userId, last.args.id)

\* the buckets named exactly "Events" that the last call inserted for userId
C11_DefaultInserts(userId) ==
  {k \in DOMAIN last.writes :
     /\ last.writes[k].stmt = "insert bucket"
     /\ \E i \in DOMAIN buckets :
          /\ buckets[i].id = last.writes[k].id
          /\ buckets[i].name = sEvents
          /\ buckets[i].userId = userId}

\* a user who has the default bucket keeps it, and no call inserts another
C11_DefaultKept ==
  \A u \in Users :
    /\ HasDefault(Pre, u) => (HasDefault(Post, u) /\ C11_DefaultInserts(u) = {})
    /\ Cardinality(C11_DefaultInserts(u)) <= 1
    /\ C11_DefaultInserts(u) # {} => u = last.userId

\* C11 (as stated): the automatic insert of the default bucket happens exactly
\* once per user, on the user's first load-buckets or assign-task call: every
\* such call leaves the user with a bucket named exactly "Events", no other
\* operation inserts it, and once there it stays and is never inserted again.
C11_DefaultInsertedOnFirstLoadOrAssign ==
  /\ C11_DefaultKept
  /\ (last.op \in {"loadBuckets", "assignTask"} /\ last.userId # NoUser) => HasDefault(Post, last.userId)
  /\ \A u \in Users : C11_DefaultInserts(u) # {} => last.op \in {"loadBuckets", "assignTask"}

\* the operations that end by loading the caller's buckets
C11_LoadingOps ==
  {"loadBuckets", "assignTask", "deleteBucket", "completeTask", "createEmptyBucket",
   "updateBucketName", "deleteTaskFromCalendar"}

\* C11 (amended): the default bucket is inserted at most once per user, by
\* the first call of that user that reaches the load of the buckets
\* (load-buckets, assign-task that does not fail, delete-bucket, rename-bucket,
\* complete-task, create-empty-bucket, delete-task-from-calendar) while the
\* user has no bucket named exactly "Events"; every such call leaves the user
\* with that bucket, no operation removes or renames it, and no later call
\* inserts another.
C11_DefaultInsertedOnceByFirstLoad ==
  /\ C11_DefaultKept
  /\ (last.op \in C11_LoadingOps /\ last.userId # NoUser /\ last.status = "ok") =>
       /\ HasDefault(Post, last.userId)
       /\ Cardinality(C11_DefaultInserts(last.userId)) = (IF HasDefault(Pre, last.userId) THEN 0 ELSE 1)
  /\ (last.op \notin C11_LoadingOps \/ last.status # "ok") => \A u \in Users : C11_DefaultInserts(u) = {}

\* a later load by a user who got the default bucket earlier and owns more
\* buckets: nothing is inserted
C11_Witness ==
  /\ last.op = "loadBuckets"
  /\ last.userId # NoUser
  /\ HasDefault(Pre, last.userId)
  /\ Len(last.ret) >= 2
  /\ last.writes = <<>>

\* C12: in every reachable state, also when a suspended assign-task or
\* update-task makes its writes after a delete-bucket has run, the bucketId of
\* every stored task is the id of a stored bucket; delete-bucket removes the
\* tasks of the bucket it deletes together with it, and no other task.
C12_EveryTaskHasItsBucket ==
  /\ \A k \in DOMAIN tasks : \E i \in DOMAIN buckets : buckets[i].id = tasks[k].bucketId
  /\ (last.op = "deleteBucket" /\ \E w \in DOMAIN last.writes : last.writes[w].stmt = "delete bucket") =>
       /\ tasks = SelectSeq(Pre.tasks, LAMBDA t : t.bucketId # last.args.id)
       /\ \A i \in DOMAIN buckets : buckets[i].id # last.args.id

\* a suspended assign-task has made its write after the bucket it had chosen
\* from the loaded list was deleted: the insert failed and no task was stored
C12_Witness ==
  /\ last.op = "assignTask"
  /\ last.status = "error"
  /\ inflight.op = "none"
  /\ tasks # <<>>
  /\ tasks = Pre.tasks
  /\ \E i \in DOMAIN last.info.existing : last.info.existing[i].id = last.info.target
  /\ ~(\E i \in DOMAIN buckets : buckets[i].id = last.info.target)

\* the tasks listed in a calendar view
CalendarItems(ret) == UNION {Range(ret[g].tasks) : g \in DOMAIN ret}

\* C13: load-buckets, load-calendar and get-task return only buckets of the
\* caller and tasks stored in buckets of the caller; get-task returns null
\* exactly when the id is no task in a bucket of the caller; with an empty
\* user id load-buckets and load-calendar return an empty result and write
\* nothing; none of the three writes a task or changes a row.
C13_ReadsReturnOnlyOwnRows ==
  /\ last.op = "loadBuckets" =>
       /\ \A i \in DOMAIN last.ret :
            /\ IsBucketOf(Post, last.userId, last.ret[i].id)
            /\ \A item \in Range(last.ret[i].items) :
                 \E k \in DOMAIN tasks : tasks[k].id = item.id /\ tasks[k].bucketId = last.ret[i].id
       /\ last.userId = NoUser => (last.ret = <<>> /\ last.writes = <<>> /\ Post = Pre)
  /\ last.op = "loadCalendarTasks" =>
       /\ \A item \in CalendarItems(last.ret) : IsTaskOf(Post, last.userId, item.id)
       /\ last.userId = NoUser => last.ret = <<>>
       /\ last.writes = <<>> /\ Post = Pre
  /\ last.op = "getTaskById" =>
       /\ IF last.userId # NoUser /\ IsTaskOf(Pre, last.userId, last.args.id)
          THEN Len(last.ret) = 1 /\ last.ret[1].id = last.args.id
          ELSE last.ret = <<>>
       /\ last.writes = <<>> /\ Post = Pre

\* get-task asked by a user for a task that lies in another user's bucket
C13_Witness ==
  /\ last.op = "getTaskById"
  /\ last.userId # NoUser
  /\ \E u \in Users : u # last.userId /\ IsTaskOf(Pre, u, last.args.id)
  /\ last.ret = <<>>

\* the last call composed a date and a time that are both well formed, the
\* time being none of 00:00 and 24:00
C14_ValidDateAndTime ==
  /\ last.op = "composeDueDate"
  /\ last.args.updates.dueDate \in {d20241201, d20241118, d20240229, d20231231}
  /\ last.args.updates.dueTime \in {t1400, t2359, t0830}

\* C14: a date composed with an HH:MM time other than 00:00, stored and split
\* again by the read-side projection, gives back the same date string and the
\* same time string, whatever the zone of the server.
C14_ComposeThenSplitIsIdentity ==
  C14_ValidDateAndTime =>
    /\ last.ret[1].shown.dueDate = last.args.updates.dueDate
    /\ last.ret[1].shown.dueTime = last.args.updates.dueTime

\* the number of days from 1970-01-01 to each well-formed date of ComposeDates
C15_DayNumber ==
  [d \in {d20241201, d20241118, d20240229, d20231231} |->
     CASE d = d20241201 -> 20058
       [] d = d20241118 -> 20045
       [] d = d20240229 -> 19782
       [] d = d20231231 -> 19722]

\* the minute of the day each well-formed time of ComposeTimes names
C15_MinuteOfDay ==
  [t \in {t1400, t2359, t0830, t0000, t140030} |->
     CASE t = t1400 -> 14 * 60
       [] t = t2359 -> 23 * 60 + 59
       [] t = t0830 -> 8 * 60 + 30
       [] t = t0000 -> 0
       [] t = t140030 -> 14 * 60]

\* C15: composeDueDate returns absent when the date string is absent or
\* empty, whatever the time; with a date and no time it returns midnight of
\* that date (in the server's zone); a time of 5 characters is read as
\* HH:MM:00 and a time of another length is passed through as it is; the
\* result is absent, and nothing is raised, when the composed string does
\* not parse.
C15_ComposerRules ==
  last.op = "composeDueDate" =>
    LET dueDate == last.args.updates.dueDate
        dueTime == last.args.updates.dueTime
        stored == last.ret[1].stored
    IN /\ dueDate \in {Undefined, sEmpty} => stored = NullDate
       /\ (dueDate \in DOMAIN C15_DayNumber /\ dueTime \in {Undefined, sEmpty}) =>
            stored = C15_DayNumber[dueDate] * 1440 - tz
       /\ (dueDate \in DOMAIN C15_DayNumber /\ dueTime \in DOMAIN C15_MinuteOfDay) =>
            stored = C15_DayNumber[dueDate] * 1440 + C15_MinuteOfDay[dueTime] - tz
       /\ (Truthy(dueDate) /\ dueTime \in {t900, t2500}) => stored = NullDate
       /\ dueDate = d20241301 => stored = NullDate

\* a date composed without a time on a server ahead of UTC
C15_Witness ==
  /\ last.op = "composeDueDate"
  /\ tz = 330
  /\ last.args.updates.dueDate = d20241201
  /\ last.args.updates.dueTime = Undefined
  /\ last.ret[1].stored = 20058 * 1440 - 330

\* the text the categorizer searches for the last call's arguments
C16_Source ==
  LET description == last.args.updates.description
      assignmentName == last.args.updates.assignmentName
  IN ToLowerCase(last.args.text \o <<" ">> \o (IF description = Undefined THEN <<>> ELSE description)
                 \o <<" ">> \o (IF assignmentName = Undefined THEN <<>> ELSE assignmentName))

\* the groups that have a keyword matching that text
C16_Matching == {k \in DOMAIN TypePatterns : EntryMatches(TypePatterns[k], C16_Source)}

\* C16: the categorizer returns exactly one of the eight tags: the tag of the
\* first group, in the order Homework, Quiz, Lab, Test, Project, Event,
\* Reminder, with a keyword matching the concatenation of raw text,
\* description and assignment name, and Other when no group matches; a text
\* with a Homework and a Quiz keyword gives Homework, one with only a Quiz
\* keyword gives Quiz.
C16_FirstMatchingGroupWins ==
  last.op = "categorizeTaskType" =>
    LET tag == last.ret[1]
        alone == last.args.updates.description = Undefined /\ last.args.updates.assignmentName = Undefined
    IN /\ tag \in {"Homework", "Quiz", "Lab", "Test", "Project", "Event", "Reminder", "Other"}
       /\ [k \in DOMAIN TypePatterns |-> TypePatterns[k].type]
            = <<"Homework", "Quiz", "Lab", "Test", "Project", "Event", "Reminder">>
       /\ IF C16_Matching = {} THEN tag = "Other"
          ELSE tag = TypePatterns[CHOOSE k \in C16_Matching : \A j \in C16_Matching : k <= j].type
       /\ (alone /\ last.args.text \in {tQuiz, cHomeworkAndQuiz}) => tag = "Homework"
       /\ (alone /\ last.args.text = cQuizTomorrow) => tag = "Quiz"
       /\ (alone /\ last.args.text \in {cBuyMilk, cLabelMaker, cShowhw}) => tag = "Other"
       /\ (alone /\ last.args.text = cChemistryLab) => tag = "Lab"
       /\ (alone /\ last.args.text = cGamePresentation) => tag = "Project"

\* a text with a Homework and a Quiz keyword was categorized
C16_Witness ==
  /\ last.op = "categorizeTaskType"
  /\ last.args.text = cHomeworkAndQuiz
  /\ Cardinality(C16_Matching) >= 2
  /\ last.ret = <<"Homework">>

\* the lexical categorizer applied to the fields stored now for the task id
C17_TagOf(d, id) ==
  LET row == CHOOSE t \in TaskRows(d, id) : TRUE
  IN categorizeTaskType(row.raw, row.description, row.assignmentName)

\* C17: the bucket view, the calendar view and get-task report for a stored
\* task the same type tag, the lexical categorizer's for the raw text,
\* description and assignment name stored now: the tag follows an edit by
\* update-task on the next read and owes nothing to the classifier's typeTag.
C17_TagIsRecomputedOnEveryRead ==
  /\ (last.op \in C11_LoadingOps \ {"deleteTaskFromCalendar"} /\ last.status = "ok") =>
       \A item \in ReturnedItems(last.ret) : item.typeTag = C17_TagOf(Post, item.id)
  /\ (last.op \in {"loadCalendarTasks", "updateTask", "deleteTaskFromCalendar"} /\ last.status = "ok") =>
       \A item \in CalendarItems(last.ret) : item.typeTag = C17_TagOf(Post, item.id)
  /\ last.op = "getTaskById" =>
       \A i \in DOMAIN last.ret : last.ret[i].typeTag = C17_TagOf(Post, last.ret[i].id)
  /\ (last.op = "loadBuckets" /\ last.userId # NoUser) =>
       \A item \in ReturnedItems(last.ret) :
         /\ \E other \in CalendarItems(loadCalendarTasks(DB, last.userId).ret) :
              other.id = item.id /\ other.typeTag = item.typeTag
         /\ getTaskById(DB, last.userId, item.id).ret[1].typeTag = item.typeTag

\* update-task changed the assignment name of a task and the calendar it
\* returns shows the task with another tag than before
C17_Witness ==
  /\ last.op = "updateTask"
  /\ last.status = "ok"
  /\ last.args.updates.assignmentName # Undefined
  /\ \E item \in CalendarItems(last.ret) :
       /\ item.id = last.args.id
       /\ item.typeTag = "Lab"
       /\ C17_TagOf(Pre, item.id) = "Other"

\* the operations that return the calendar view of the caller
C18_CalendarOps == {"loadCalendarTasks", "updateTask", "deleteTaskFromCalendar"}

\* the position in the task table, which is the creation order, of a task id
C18_Position(id) == CHOOSE k \in DOMAIN tasks : tasks[k].id = id

\* the key the claim gives a stored row: "unscheduled" or its due date
C18_KeyOf(row) ==
  IF row.dueDate = NullDate THEN <<"u","n","s","c","h","e","d","u","l","e","d">> ELSE IsoDate(row.dueDate)

\* every task of the caller is listed once, under the key of its row, and no
\* key has two groups
C18_GroupedByKey ==
  /\ \A k \in DOMAIN tasks :
       IsTaskOf(Post, last.userId, tasks[k].id) =>
         /\ \E g \in DOMAIN last.ret :
              /\ last.ret[g].key = C18_KeyOf(tasks[k])
              /\ \E p \in DOMAIN last.ret[g].tasks : last.ret[g].tasks[p].id = tasks[k].id
         /\ Cardinality({<<g, p>> \in (DOMAIN last.ret) \X (1..Len(tasks)) :
                           p \in DOMAIN last.ret[g].tasks /\ last.ret[g].tasks[p].id = tasks[k].id}) = 1
  /\ \A g, h \in DOMAIN last.ret : last.ret[g].key = last.ret[h].key => g = h
  /\ \A g \in DOMAIN last.ret : \A p \in DOMAIN last.ret[g].tasks :
       /\ IsTaskOf(Post, last.userId, last.ret[g].tasks[p].id)
       /\ last.ret[g].tasks[p].dueDate = last.ret[g].key

\* C18 as stated: in the calendar view a task with no due timestamp is under
\* "unscheduled" and every other task under the key of its due date, and any
\* two tasks under one key are listed in creation order.
C18_SameKeyInCreationOrder ==
  (last.op \in C18_CalendarOps /\ last.status = "ok" /\ last.userId # NoUser) =>
    /\ C18_GroupedByKey
    /\ \A g \in DOMAIN last.ret : \A p, q \in DOMAIN last.ret[g].tasks :
         p < q => C18_Position(last.ret[g].tasks[p].id) < C18_Position(last.ret[g].tasks[q].id)

\* C18, amended: in the calendar view a task with no due timestamp is under
\* "unscheduled" and every other task under the key of its due date; two
\* tasks under one key are listed by due timestamp, and in creation order
\* when their due timestamps are equal (as all unscheduled tasks' are).
C18_SameKeyInDueThenCreationOrder ==
  (last.op \in C18_CalendarOps /\ last.status = "ok" /\ last.userId # NoUser) =>
    /\ C18_GroupedByKey
    /\ \A g \in DOMAIN last.ret : \A p, q \in DOMAIN last.ret[g].tasks :
         p < q =>
           LET a == tasks[C18_Position(last.ret[g].tasks[p].id)]
               b == tasks[C18_Position(last.ret[g].tasks[q].id)]
           IN \/ a.dueDate # NullDate /\ b.dueDate # NullDate /\ a.dueDate < b.dueDate
              \/ /\ a.dueDate = b.dueDate
                 /\ C18_Position(last.ret[g].tasks[p].id) < C18_Position(last.ret[g].tasks[q].id)

\* a calendar with two tasks under one date key, the one created later due
\* earlier in the day and listed first
C18_Witness ==
  /\ last.op \in C18_CalendarOps
  /\ last.status = "ok"
  /\ \E g \in DOMAIN last.ret :
       /\ Len(last.ret[g].tasks) = 2
       /\ last.ret[g].key # <<"u","n","s","c","h","e","d","u","l","e","d">>
       /\ C18_Position(last.ret[g].tasks[1].id) > C18_Position(last.ret[g].tasks[2].id)

\* a calendar with two unscheduled tasks, listed in creation order
C18_UnscheduledWitness ==
  /\ last.op \in C18_CalendarOps
  /\ last.status = "ok"
  /\ \E g \in DOMAIN last.ret :
       /\ Len(last.ret[g].tasks) = 2
       /\ last.ret[g].key = <<"u","n","s","c","h","e","d","u","l","e","d">>
       /\ C18_Position(last.ret[g].tasks[1].id) < C18_Position(last.ret[g].tasks[2].id)

\* the operations that complete a task
C19_CompletingOps == {"completeTask", "deleteTaskFromCalendar"}

\* the task id is listed in no bucket view and no calendar view of any user
C19_InNoView(id) ==
  \A u \in Users :
    /\ \A item \in ReturnedItems(loadBuckets(DB, u).ret) : item.id # id
    /\ \A item \in CalendarItems(loadCalendarTasks(DB, u).ret) : item.id # id

\* complete-task called now with the arguments of the last call
C19_Again == completeTask(DB, last.userId, last.args.id)

\* C19: complete-task (and the calendar's delete built on it) on a task of
\* the caller deletes exactly that task: its row is gone, it is in neither
\* the bucket view nor the calendar view, every other task and every bucket
\* is as before; the same call made again writes nothing and changes
\* nothing, as does any call whose id is no task of the caller.
C19_CompleteDeletesExactlyThatTask ==
  /\ (last.op \in C19_CompletingOps /\ IsTaskOf(Pre, last.userId, last.args.id)) =>
       /\ last.status = "ok"
       /\ tasks = SelectSeq(Pre.tasks, LAMBDA t : t.id # last.args.id)
       /\ buckets = Pre.buckets
       /\ last.writes = <<[stmt |-> "delete task", id |-> last.args.id]>>
       /\ C19_InNoView(last.args.id)
       /\ last.op = "completeTask" => \A item \in ReturnedItems(last.ret) : item.id # last.args.id
       /\ last.op = "deleteTaskFromCalendar" => \A item \in CalendarItems(last.ret) : item.id # last.args.id
       /\ C19_Again.d.writes = <<>>
       /\ C19_Again.d.buckets = buckets
       /\ C19_Again.d.tasks = tasks
       /\ last.op = "completeTask" => C19_Again.ret = last.ret
  /\ (last.op \in C19_CompletingOps /\ ~IsTaskOf(Pre, last.userId, last.args.id)) =>
       /\ tasks = Pre.tasks
       /\ \A w \in Range(last.writes) : w.stmt = "insert bucket"

\* complete-task has deleted one of the caller's two tasks
C19_Witness ==
  /\ last.op = "completeTask"
  /\ IsTaskOf(Pre, last.userId, last.args.id)
  /\ Len(Pre.tasks) = 2
  /\ Len(tasks) = 1
  /\ Cardinality(ReturnedItems(last.ret)) = 1

\* the last call is assign-task made while OPENAI_API_KEY is not set
C20_WithoutCredential == last.op = "assignTask" /\ ~last.args.apiKey

\* the text of the last call is blank or its user id is empty
C20_BlankCall ==
  \/ SelectSeq(last.args.text, LAMBDA c : c \notin SpaceChars) = <<>>
  \/ last.userId = NoUser

\* C20: assign-task with non-blank text and a non-empty user id, made while
\* the credential is missing, fails before any storage write: it inserts no
\* default bucket, no category bucket and no task; with blank text or an
\* empty user id the call does not fail and returns the caller's buckets as
\* they are stored, with no task added.
C20_MissingCredentialFailsBeforeAnyWrite ==
  /\ (C20_WithoutCredential /\ ~C20_BlankCall) =>
       /\ last.status = "error"
       /\ last.writes = <<>>
       /\ buckets = Pre.buckets
       /\ tasks = Pre.tasks
  /\ (C20_WithoutCredential /\ C20_BlankCall) =>
       /\ last.status = "ok"
       /\ tasks = Pre.tasks
       /\ \A w \in Range(last.writes) : w.stmt = "insert bucket" /\ ~HasDefault(Pre, last.userId)
       /\ [i \in DOMAIN last.ret |-> last.ret[i].id] =
            SelectSeq([i \in DOMAIN buckets |-> IF buckets[i].userId = last.userId THEN buckets[i].id ELSE NoId],
                      LAMBDA id : id # NoId)
       /\ \A item \in ReturnedItems(last.ret) : IsTaskOf(Post, last.userId, item.id)
       /\ \A k \in DOMAIN tasks :
            IsTaskOf(Post, last.userId, tasks[k].id) => \E item \in ReturnedItems(last.ret) : item.id = tasks[k].id

\* a user with no bucket yet asked for a task to be assigned while the
\* credential was missing: the call failed and the tables are still empty
C20_Witness ==
  /\ C20_WithoutCredential
  /\ ~C20_BlankCall
  /\ last.status = "error"
  /\ ~HasDefault(Post, last.userId)
  /\ \E u \in Users : HasDefault(Post, u)

\* a task row that a step inserts was inserted by assign-task, with the
\* trimmed text of that call as its raw text
C23_RawSetAtCreation ==
  \A j \in DOMAIN tasks' :
    (\A i \in DOMAIN tasks : tasks[i].id # tasks'[j].id) =>
      /\ last'.op = "assignTask"
      /\ tasks'[j].raw = Trim(last'.args.text)
      /\ tasks'[j].raw # <<>>

\* a task row that a step keeps has the raw text it had
C23_RawKept ==
  \A i \in DOMAIN tasks : \A j \in DOMAIN tasks' :
    tasks[i].id = tasks'[j].id => tasks[i].raw = tasks'[j].raw

\* C23: the raw text of a task is the trimmed text of the assign-task call
\* that created it and no later operation changes it.
C23_RawIsImmutable == [][C23_RawSetAtCreation /\ C23_RawKept]_vars

\* update-task has given a task another assignment name, and its raw
\* text is what it was
C23_Witness ==
  /\ last.op = "updateTask"
  /\ last.status = "ok"
  /\ last.args.updates.assignmentName # Undefined
  /\ \E i \in DOMAIN tasks : \E j \in DOMAIN Pre.tasks :
       /\ tasks[i].id = last.args.id
       /\ Pre.tasks[j].id = last.args.id
       /\ tasks[i].assignmentName # Pre.tasks[j].assignmentName
       /\ tasks[i].raw = Pre.tasks[j].raw
       /\ tasks[i].raw # tasks[i].assignmentName

\* the last call is an assign-task that got a suggestion and returned
C24_Returned == last.op = "assignTask" /\ last.info.suggested /\ last.status = "ok"

\* the ids of the buckets of a returned bucket list that list the task id
C24_BucketsListing(ret, id) ==
  {ret[i].id : i \in {k \in DOMAIN ret : \E item \in Range(ret[k].items) : item.id = id}}

\* no other request has written a row of the caller between the load before
\* classification and the writes of the call
C24_NothingWrittenBetween == BucketView(Pre, last.userId) = last.info.existing

C25_LoadedIds == {last.info.existing[i].id : i \in DOMAIN last.info.existing}

\* the name the last call falls back on: newBucketName, else courseCategory,
\* else "Others"
C25_Name ==
  LET r == last.args.response
  IN IF r.newBucketName # Undefined /\ r.newBucketName # <<>> THEN r.newBucketName
     ELSE IF r.parsedTask.courseCategory # Undefined /\ r.parsedTask.courseCategory # <<>>
          THEN r.parsedTask.courseCategory
     ELSE <<"O","t","h","e","r","s">>

\* C25: assign-task takes the suggested bucketId as the target only when it
\* is the id of a bucket it loaded for the caller, and then whatever name is
\* suggested; any other suggested bucketId is ignored and the task is stored
\* in a bucket of the caller that has the normalized name of newBucketName,
\* else courseCategory, else "Others".
C25_SuggestedIdOnlyAmongLoaded ==
  (last.op = "assignTask" /\ last.info.suggested /\ last.status = "ok") =>
    /\ \A id \in C25_LoadedIds : IsBucketOf(Post, last.userId, id)
    /\ IsBucketOf(Post, last.userId, last.info.target)
    /\ \E k \in DOMAIN tasks : tasks[k].id = last.info.taskId /\ tasks[k].bucketId = last.info.target
    /\ last.args.response.bucketId \in C25_LoadedIds =>
         /\ last.info.target = last.args.response.bucketId
         /\ last.info.created = NoId
    /\ last.args.response.bucketId \notin C25_LoadedIds =>
         /\ last.info.target # last.args.response.bucketId
         /\ \E i \in DOMAIN buckets :
              /\ buckets[i].id = last.info.target
              /\ SameNormalized(buckets[i].name, C25_Name)
              /\ last.info.created = last.info.target => buckets[i].name = C25_Name

\* the classifier suggested the id of another user's bucket and the task
\* went to the caller's bucket of the suggested name
C25_Witness ==
  /\ last.op = "assignTask" /\ last.info.suggested /\ last.status = "ok"
  /\ \E i \in DOMAIN buckets :
       buckets[i].id = last.args.response.bucketId /\ buckets[i].userId # last.userId
  /\ IsBucketOf(Post, last.userId, last.info.target)
  /\ \E k \in DOMAIN tasks : tasks[k].id = last.info.taskId /\ tasks[k].bucketId = last.info.target

\* the classifier suggested the id of one loaded bucket and the name of
\* another, and the task went to the bucket of the id
C25_IdPreferredWitness ==
  /\ last.op = "assignTask" /\ last.info.suggested /\ last.status = "ok"
  /\ last.args.response.bucketId \in C25_LoadedIds
  /\ last.info.target = last.args.response.bucketId
  /\ \E i \in DOMAIN last.info.existing :
       /\ last.info.existing[i].id # last.info.target
       /\ SameNormalized(last.info.existing[i].name, C25_Name)
  /\ \A i \in DOMAIN last.info.existing :
       last.info.existing[i].id = last.info.target => ~SameNormalized(last.info.existing[i].name, C25_Name)

\* the task row the last call inserted
C26_Created == CHOOSE t \in TaskRows(Post, last.info.taskId) : TRUE

\* a string that is present and not empty
C26_NonEmpty(s) == s # Undefined /\ s # <<>>

\* C26: the task assign-task stores for a suggestion has as assignment name
\* the parsed assignment name if non-empty, else the parsed course category
\* if non-empty, else "Task", and as description the parsed description if
\* non-empty, else the trimmed raw text: neither is ever empty.
C26_StoredNameAndDescriptionFallBack ==
  (last.op = "assignTask" /\ last.info.taskId # NoId) =>
    LET parsed == last.args.response.parsedTask
        row == C26_Created
    IN /\ row.assignmentName =
            (IF C26_NonEmpty(parsed.assignmentName) THEN parsed.assignmentName
             ELSE IF C26_NonEmpty(parsed.courseCategory) THEN parsed.courseCategory
             ELSE <<"T","a","s","k">>)
       /\ row.description =
            (IF C26_NonEmpty(parsed.description) THEN parsed.description ELSE row.raw)
       /\ C26_NonEmpty(row.raw)
       /\ C26_NonEmpty(row.assignmentName)
       /\ C26_NonEmpty(row.description)

\* the parsed assignment name was the empty string: the task is named after
\* the course category and described by the parsed description
C26_Witness ==
  /\ last.op = "assignTask"
  /\ last.info.taskId # NoId
  /\ last.args.response.parsedTask.assignmentName = <<>>
  /\ C26_Created.assignmentName = last.args.response.parsedTask.courseCategory
  /\ C26_Created.description = last.args.response.parsedTask.description

\* the suggestion carried no parsed task: the task is named "Task" and
\* described by its raw text
C26_NoParsedTaskWitness ==
  /\ last.op = "assignTask"
  /\ last.info.taskId # NoId
  /\ ~last.args.response.parsedTask.present
  /\ C26_Created.assignmentName = <<"T","a","s","k">>
  /\ C26_Created.description = C26_Created.raw

\* the due timestamp the updates of the last call compose, NullDate when the
\* date is left out or cannot be parsed
C27_Composed == composeDueDate(last.args.updates.dueDate, last.args.updates.dueTime, tz)

\* the row the last update-task was to change, as it was and as it is
C27_Before == CHOOSE t \in TaskRows(Pre, last.args.id) : TRUE
C27_After == CHOOSE t \in TaskRows(Post, last.args.id) : TRUE

\* C27: update-task on a task of the caller sets the assignment name, the
\* description, the due timestamp and the bucket that its partial update
\* supplies and nothing else: an omitted field, every other task and every
\* bucket stay as they were, and so does the due timestamp when dueDate is
\* omitted (with or without a dueTime) or cannot be parsed. On a task that is
\* not the caller's, and when the statement fails, it changes nothing.
C27_UpdateChangesOnlySuppliedFields ==
  /\ (last.op = "updateTask" /\ last.status = "ok" /\ IsTaskOf(Pre, last.userId, last.args.id)) =>
       LET u == last.args.updates
       IN /\ buckets = Pre.buckets
          /\ Len(tasks) = Len(Pre.tasks)
          /\ \A k \in DOMAIN tasks : tasks[k].id # last.args.id => tasks[k] = Pre.tasks[k]
          /\ \A k \in DOMAIN tasks : tasks[k].id = Pre.tasks[k].id
          /\ C27_After.raw = C27_Before.raw
          /\ C27_After.assignmentName =
               (IF u.assignmentName = Undefined THEN C27_Before.assignmentName ELSE u.assignmentName)
          /\ C27_After.description =
               (IF u.description = Undefined THEN C27_Before.description ELSE u.description)
          /\ C27_After.bucketId = (IF u.bucketId = NoId THEN C27_Before.bucketId ELSE u.bucketId)
          /\ C27_After.dueDate =
               (IF u.dueDate = Undefined \/ u.dueDate = <<>> \/ C27_Composed = NullDate
                THEN C27_Before.dueDate ELSE C27_Composed)
  /\ (last.op = "updateTask" /\ (last.status # "ok" \/ ~IsTaskOf(Pre, last.userId, last.args.id))) =>
       /\ buckets = Pre.buckets
       /\ tasks = Pre.tasks

\* an update that supplied a dueTime and no dueDate, or a dueDate that cannot
\* be parsed, on a task with a due timestamp: the timestamp is as it was
C27_Witness ==
  /\ last.op = "updateTask"
  /\ last.status = "ok"
  /\ IsTaskOf(Pre, last.userId, last.args.id)
  /\ last.args.updates.dueTime # Undefined \/ last.args.updates.dueDate # Undefined
  /\ C27_Composed = NullDate
  /\ C27_Before.dueDate # NullDate
  /\ C27_After.dueDate = C27_Before.dueDate

\* what the read-side projection shows for a call of composeDueDate
C28_Shown == last.ret[1].shown

\* C28: a projected task has a time component exactly when the UTC hour or
\* the UTC minute of its stored timestamp is not zero; a task due at "00:00"
\* and a task with no due time on the same date are shown with that date and
\* without a time.
C28_TimeShownIffNotMidnight ==
  /\ (last.op = "composeDueDate" /\ last.ret[1].stored # NullDate) =>
       (C28_Shown.dueTime # Undefined <=> last.ret[1].stored % 1440 # 0)
  /\ (last.op = "composeDueDate" /\ last.ret[1].stored = NullDate) =>
       (C28_Shown.dueDate = Undefined /\ C28_Shown.dueTime = Undefined)
  /\ (/\ last.op = "composeDueDate"
      /\ last.args.updates.dueDate \in {d20241201, d20241118, d20240229, d20231231}
      /\ last.args.updates.dueTime \in {Undefined, <<>>, t0000}) =>
       /\ C28_Shown.dueDate = last.args.updates.dueDate
       /\ C28_Shown.dueTime = Undefined

\* the last call is delete-bucket on a bucket of the caller whose name is not
\* "Events" in any casing
C30_OwnNonReserved ==
  /\ last.op = "deleteBucket"
  /\ \E i \in DOMAIN Pre.buckets :
       /\ Pre.buckets[i].id = last.args.id
       /\ Pre.buckets[i].userId = last.userId
       /\ ToLowerCase(Pre.buckets[i].name) # ToLowerCase(sEvents)

\* C30: delete-bucket on a non-reserved bucket of the caller removes that
\* bucket and the tasks stored in it and nothing else: every other bucket and
\* every task in another bucket, the caller's or another user's, is as it was.
C30_DeleteRemovesBucketAndItsTasksOnly ==
  C30_OwnNonReserved =>
    /\ last.status = "ok"
    /\ buckets = SelectSeq(Pre.buckets, LAMBDA b : b.id # last.args.id)
    /\ tasks = SelectSeq(Pre.tasks, LAMBDA t : t.bucketId # last.args.id)
    /\ last.writes = <<[stmt |-> "delete bucket", id |-> last.args.id]>>
    /\ \A k \in DOMAIN last.ret : last.ret[k].id # last.args.id

\* delete-bucket has removed a bucket with a task in it; the default bucket
\* of the caller is still stored
C30_Witness ==
  /\ C30_OwnNonReserved
  /\ \E k \in DOMAIN Pre.tasks : Pre.tasks[k].bucketId = last.args.id
  /\ Len(tasks) < Len(Pre.tasks)
  /\ Len(buckets) = Len(Pre.buckets) - 1
  /\ HasDefault(Post, last.userId)

\* the bucket rows of the caller stored before the last step whose normalized
\* name is that of the bucket row the step inserted
C21_StoredTwins ==
  {i \in DOMAIN Pre.buckets :
     /\ Pre.buckets[i].userId = last.userId
     /\ SameNormalized(Pre.buckets[i].name, last.args.response.newBucketName)}

\* C21: the bucket insert of assign-task is decided on the list the call
\* loaded and on nothing else: when no loaded bucket has the normalized name,
\* the insert adds a row of that name for the caller even when another call
\* of the same user has stored a bucket of the same normalized name since;
\* no uniqueness check stops it, so two concurrent calls each insert one.
C21_InsertIgnoresRowsStoredSinceLoad ==
  last.op = "tab: insert bucket" =>
    /\ last.status = "ok"
    /\ \A i \in DOMAIN last.info.existing :
         ~SameNormalized(last.info.existing[i].name, last.args.response.newBucketName)
    /\ Len(buckets) = Len(Pre.buckets) + 1
    /\ buckets[Len(buckets)] =
         [id |-> last.info.created, name |-> last.args.response.newBucketName, userId |-> last.userId]
    /\ \A i \in DOMAIN Pre.buckets : buckets[i] = Pre.buckets[i]
    /\ \A i \in C21_StoredTwins :
         \A k \in DOMAIN last.info.existing : last.info.existing[k].id # Pre.buckets[i].id

\* two calls of one user have each inserted a bucket of the same normalized
\* name, the second while the first one's row was stored
C21_Witness ==
  /\ last.op = "tab: insert bucket"
  /\ C21_StoredTwins # {}
  /\ \E i, j \in DOMAIN buckets :
       /\ i # j
       /\ buckets[i].userId = buckets[j].userId
       /\ SameNormalized(buckets[i].name, buckets[j].name)
       /\ buckets[j].id = last.info.created
       /\ \E tab \in Tabs : inflight[tab].created = buckets[i].id \/ \E k \in DOMAIN tasks : tasks[k].bucketId = buckets[i].id

\* no load-buckets returns, without a task in it, the bucket that a running
\* assign-task created
C22_NotSeenByLoadBuckets ==
  last.op = "tab: loadBuckets" =>
    \A k \in DOMAIN last.ret :
      (\E tab \in Tabs : inflight[tab].created = last.ret[k].id) => last.ret[k].items # <<>>

\* C22: assign-task that creates a bucket is all-or-nothing: in no state does
\* the bucket created by a call exist without the task of the same call, and
\* no concurrent load-buckets sees such a bucket.
C22_NoBucketWithoutItsTask ==
  /\ \A tab \in Tabs :
       (inflight[tab].created # NoId /\ BucketRows(Post, inflight[tab].created) # {}) =>
         \E k \in DOMAIN tasks : tasks[k].bucketId = inflight[tab].created
  /\ C22_NotSeenByLoadBuckets

\* C29: under any interleaving of the requests of one user, the user has at
\* most one bucket named "Events".
C29_AtMostOneDefaultBucket ==
  \A u \in Users :
    Cardinality({i \in DOMAIN buckets : buckets[i].userId = u /\ buckets[i].name = sEvents}) <= 1

====
